---- MODULE Spec2Model ----
(***************************************************************************)
(* Model of the PSK/PSA add-on: the bone mapping and sequence loop of      *)
(* psa/importer.py (import_psa) and the sequence extraction of             *)
(* psa/export/operators.py (update_actions_and_timeline_markers).          *)
(*                                                                         *)
(* Names are Python str values, modelled as sequences of code points.      *)
(* Python indices are 0-based: index i of a list is element i + 1 of the   *)
(* sequence that models it.                                                *)
(***************************************************************************)
EXTENDS Integers, Sequences, FiniteSets, TLC

VARIABLES
    \* ---- psa/importer.py: import_psa ----
    pc,                              \* position inside import_psa
    psa_bones,                       \* psa_reader.bones: the names, as Windows-1252 bytes
    armature_bone_names,             \* [x.name for x in armature_data.bones]
    bone_mapping_mode,               \* options.bone_mapping_mode
    sequence_names,                  \* options.sequence_names
    psa_bone_index,                  \* loop counter of the mapping loop
    psa_to_armature_bone_indices,    \* dict: psa bone index -> armature bone index
    armature_to_psa_bone_indices,    \* dict: armature bone index -> psa bone index
    psa_bone_names,                  \* list of names kept for diagnostics and lookups
    duplicate_mappings,              \* list of (psa index, armature index, claimant psa index)
    warnings,                        \* result.warnings
    import_bones,                    \* list of ImportBone or None
    sequence_index,                  \* loop counter of the sequence loop
    actions,                         \* bpy.data.actions created by this import
    returned,                        \* TRUE once import_psa has returned its result
    \* ---- psa/export/operators.py: update_actions_and_timeline_markers ----
    data_actions,                    \* bpy.data.actions: name, frame_range, pose_markers, fcurves
    timeline_markers,                \* context.scene.timeline_markers: name, frame
    nla_tracks,                      \* animation_data.nla_tracks: mute, strips
    has_animation_data,              \* the animation data object has animation_data
                                     \* (importer: the armature has animation_data)
    should_override_animation_data,  \* pg.should_override_animation_data
    animation_data_override,         \* pg.animation_data_override: "None", "armature", "other"
    action_list,                     \* pg.action_list
    marker_list,                     \* pg.marker_list
    export_pc,                       \* "scene" before the lists are populated, "listed" after
    \* ---- psa/export/operators.py: get_sequence_fps ----
    fps_source,                      \* fps_source
    fps_custom,                      \* fps_custom
    scene_fps,                       \* context.scene.render.fps
    fps_actions,                     \* actions: the 'psa_sequence_fps' property of each, or None
    fps_result,                      \* the value returned, None before the call
    fps_pc,                          \* "call" before the call, then "returned" or "raised"
    \* ---- the execute methods of PSA_OT_export, PSA_OT_import, PSK_OT_export ----
    operator,                        \* the operator whose execute is running
    op_pc,                           \* position inside execute
    op_result,                       \* the set execute returns, or the exception it raises
    reports,                         \* the types of the self.report calls, in order
    sequence_source,                 \* pg.sequence_source of the PSA export
    export_sequences,                \* options.sequences handed to build_psa
    sequence_list,                   \* pg.sequence_list of the PSA import: action_name, is_selected
    builder_called,                  \* build_psa or build_psk has been called
    document,                        \* psa or psk: "none" until the build has returned it, then "built"
    importer_called,                 \* import_psa has been called
    writer_called,                   \* write_psa or write_psk has been called
    \* ---- psk/export/operators.py: PSK_OT_export.invoke, populate_material_list ----
    input_objects_found,             \* get_psk_input_objects returns (does not raise)
    mesh_objects,                    \* input_objects.mesh_objects: the material slots of each
    material_list,                   \* pg.material_list: material_name, index
    fileselect_added,                \* context.window_manager.fileselect_add has been called
    \* ---- psa/importer.py: the bind pose of an import bone, _calculate_fcurve_data ----
    armature_bone,                   \* the armature bone of the import bone, and its parent
    import_bone,                     \* ImportBone: parent, orig_loc, orig_quat, post_quat
    key_data,                        \* sequence_data_matrix[frame_index, bone_index]
    fcurve_data,                     \* what _calculate_fcurve_data returns for key_data
    convert_pc,                      \* "bind_pose", "convert", "converted"
    \* ---- psa/importer.py: the conversion of a sequence data matrix (196-207) ----
    psa_matrix,                      \* the keys of the sequence in the file, by frame and bone
    matrix_bones,                    \* import_bones: None or the bind pose of the bone
    sequence_data_matrix,            \* sequence_data_matrix[frame_index, bone_index]
    cell_bone_index,                 \* bone_index of the outer loop
    cell_frame_index,                \* frame_index of the inner loop
    cell_calls,                      \* calls of _calculate_fcurve_data, by frame and bone
    reordered_matrix,                \* the matrix read, its cells converted in another order
    keys_in_flight,                  \* key_data of the turns that have read and not stored
    reordered_calls,                 \* calls of _calculate_fcurve_data in the other order
    matrix_pc,                       \* "read", "convert", "converted", "reordered"
    \* ---- psa/importer.py: the actions of the sequence loop (163-233) ----
    bpy_actions,                     \* bpy.data.actions: name, fcurves, psa_sequence_fps
    previous_actions,                \* bpy.data.actions when import_psa was called
    import_options,                  \* PsaImportOptions
    requested_sequences,             \* the names of sequences, in order
    seq_index,                       \* sequence_index
    seq_action,                      \* action: its position in bpy.data.actions, from 1
    sequence_actions,                \* actions: positions in bpy.data.actions
    seq_pc,                          \* "begin", "read", "finish", "returned", "raised"
    \* ---- psk/data.py: a wedge or face chunk and its decoding ----
    chunk_kind,                      \* "wedge" or "face"
    chunk_written_as,                \* the layout the record was written in: 16 or 32, 0 if unknown
    chunk_record_size,               \* record_size of the chunk header
    chunk_bytes,                     \* the bytes of the record
    chunk_decoded,                   \* the result of decoding: error, layout, record
    chunk_pc,                        \* "decode", "decoded"
    \* ---- psk/data.py: a Psk document written to a file and read back ----
    psk_document,                    \* Psk: the twelve lists of Psk.__init__
    psk_wide,                        \* the wedges and faces are written in the 32-bit layouts
    psk_file,                        \* the bytes of the file
    psk_read,                        \* what reading the file gives: error, chunk_order, document
    codec_pc,                        \* "write", "read", "done"
    \* ---- psk/export/operators.py: the cursor of the material list ----
    material_list_index,             \* pg.material_list_index
    material_list_move,              \* the last call of pg.material_list.move
    cursor_pc,                       \* "open" before the first operation, then "used"
    \* ---- psa/import_/operators.py: load_psa_file ----
    psa_file,                        \* the file at filepath: readable, sequences, bones
    pg_sequence_list,                \* pg.sequence_list of the import dialog
    pg_psa_bones,                    \* pg.psa.bones
    psa_error,                       \* pg.psa_error
    sequence_filter_name,            \* pg.sequence_filter_name
    sequence_use_filter_regex,       \* pg.sequence_use_filter_regex
    sequence_filter_is_selected,     \* pg.sequence_filter_is_selected
    sequence_use_filter_invert,      \* pg.sequence_use_filter_invert
    load_pc                          \* "idle", "open" before the first call, then "loaded"

import_vars == <<pc, psa_bones, armature_bone_names, bone_mapping_mode, sequence_names,
                 psa_bone_index, psa_to_armature_bone_indices, armature_to_psa_bone_indices,
                 psa_bone_names, duplicate_mappings, warnings, import_bones, sequence_index,
                 actions, returned>>

export_vars == <<data_actions, timeline_markers, nla_tracks, has_animation_data,
                 should_override_animation_data, animation_data_override,
                 action_list, marker_list, export_pc>>

fps_vars == <<fps_source, fps_custom, scene_fps, fps_actions, fps_result, fps_pc>>

op_vars == <<operator, op_pc, op_result, reports, sequence_source, export_sequences,
             sequence_list, builder_called, document, importer_called, writer_called>>

psk_vars == <<input_objects_found, mesh_objects, material_list, fileselect_added>>

convert_vars == <<armature_bone, import_bone, key_data, fcurve_data, convert_pc>>

matrix_vars == <<psa_matrix, matrix_bones, sequence_data_matrix, cell_bone_index,
                 cell_frame_index, cell_calls, reordered_matrix, keys_in_flight,
                 reordered_calls, matrix_pc>>

seq_vars == <<bpy_actions, previous_actions, import_options, requested_sequences,
              seq_index, seq_action, sequence_actions, seq_pc>>

chunk_vars == <<chunk_kind, chunk_written_as, chunk_record_size, chunk_bytes, chunk_decoded,
                chunk_pc>>

codec_vars == <<psk_document, psk_wide, psk_file, psk_read, codec_pc>>

cursor_vars == <<material_list_index, material_list_move, cursor_pc>>

load_vars == <<psa_file, pg_sequence_list, pg_psa_bones, psa_error,
               sequence_filter_name, sequence_use_filter_regex,
               sequence_filter_is_selected, sequence_use_filter_invert, load_pc>>

vars == <<import_vars, export_vars, fps_vars, op_vars, psk_vars, convert_vars,
         matrix_vars,
         seq_vars,
         chunk_vars,
         codec_vars,
         cursor_vars,
         load_vars>>

-----------------------------------------------------------------------------
(* Bounds of the model. *)

\* Largest number of bones in the PSA file.
MaxPsaBones == 3
\* Largest number of bones in the target armature.
MaxArmatureBones == 2
\* Largest number of sequences requested for import.
MaxSequences == 2
\* Largest frame position of a marker, a strip bound or an action bound.
MaxFrame == 2
\* Largest length of the name of an action or of a pose marker.
MaxNameLen == 5
\* Largest number of pose markers of an action.
MaxPoseMarkers == 2
\* Largest length of the name of a pose marker, a few longer names apart.
MaxPoseMarkerNameLen == 3
\* Largest number of f-curves of an action.
MaxFCurves == 1
\* Frame rates of the model are 1..MaxFps.
MaxFps == 3
\* At most MaxFpsActions actions contribute to a sequence.
MaxFpsActions == 2
\* At most MaxMeshObjects mesh objects are exported.
MaxMeshObjects == 2
\* A mesh has at most MaxMaterialSlots material slots.
MaxMaterialSlots == 2
\* A mesh object of the material list has up to MaxCursorMaterials slots.
MaxCursorMaterials == 3

\* A list of a PSK document has up to MaxCodecRecords records.
MaxCodecRecords == 2

\* A sequence data matrix has up to MaxMatrixFrames frames and MaxMatrixBones
\* bones.
MaxMatrixFrames == 2
MaxMatrixBones == 2

\* The cells of a matrix are converted in every other order when the mapped
\* bones have up to MaxReorderedCells cells.
MaxReorderedCells == 4

\* The coordinates of a location are whole numbers of magnitude up to MaxCoord.
MaxCoord == 1

-----------------------------------------------------------------------------
(* Python values. *)

\* Python's None, where the code returns Optional[int].
None == -1

\* The code points used by the names of the model.
ChRoot == <<82, 111, 111, 116>>      \* 'Root'
ChRootLower == <<114, 111, 111, 116>>   \* 'root'
ChHead == <<72, 101, 97, 100>>       \* 'Head'
ChHeadLower == <<104, 101, 97, 100>>    \* 'head'

\* The bone names a PSA file or an armature may carry in the model.
BoneNameSet == {ChRoot, ChHead, ChHeadLower}

\* The frame counts a PSA sequence may have in the model.
FrameCountSet == {2}

\* The bytes Windows-1252 leaves undefined: bytes.decode('windows-1252')
\* raises UnicodeDecodeError on them.
UndefinedBytes1252 == {129, 141, 143, 144, 157}

\* The characters of Windows-1252 for the bytes 0x80..0x9F that have one.
Table1252 ==
    [b \in (128..159) \ UndefinedBytes1252 |->
        CASE b = 128 -> 8364 [] b = 130 -> 8218 [] b = 131 -> 402  [] b = 132 -> 8222
          [] b = 133 -> 8230 [] b = 134 -> 8224 [] b = 135 -> 8225 [] b = 136 -> 710
          [] b = 137 -> 8240 [] b = 138 -> 352  [] b = 139 -> 8249 [] b = 140 -> 338
          [] b = 142 -> 381  [] b = 145 -> 8216 [] b = 146 -> 8217 [] b = 147 -> 8220
          [] b = 148 -> 8221 [] b = 149 -> 8226 [] b = 150 -> 8211 [] b = 151 -> 8212
          [] b = 152 -> 732  [] b = 153 -> 8482 [] b = 154 -> 353  [] b = 155 -> 8250
          [] b = 156 -> 339  [] b = 158 -> 382  [] b = 159 -> 376]

\* bytes.decode('windows-1252'), one byte: the bytes 0..0x7F and 0xA0..0xFF
\* map to the code point of the same number, the bytes 0x80..0x9F to their
\* character of the code page, or to None where the code page has none.
DecodeByte1252(b) ==
    IF b < 128 \/ b > 159 THEN b
    ELSE IF b \in UndefinedBytes1252 THEN None
    ELSE Table1252[b]

\* What Decode1252 gives where bytes.decode raises UnicodeDecodeError: no
\* str.
UnicodeDecodeError == <<None>>

\* bytes.decode('windows-1252'): the str, or UnicodeDecodeError when a byte
\* has no character.
Decode1252(bytes) ==
    IF \E i \in 1..Len(bytes) : bytes[i] \in UndefinedBytes1252
    THEN UnicodeDecodeError
    ELSE [i \in 1..Len(bytes) |-> DecodeByte1252(bytes[i])]

\* The simple lower-case mappings of the Unicode database of Python 3.11:
\* <<first, last, step, delta>> maps the code points first, first + step,
\* ..., last to the code point delta further on.
LowerRanges ==
    {
    <<65, 90, 1, 32>>, <<192, 214, 1, 32>>, <<216, 222, 1, 32>>, <<256, 302, 2, 1>>,
    <<306, 310, 2, 1>>, <<313, 327, 2, 1>>, <<330, 374, 2, 1>>, <<376, 376, 1, -121>>,
    <<377, 381, 2, 1>>, <<385, 385, 1, 210>>, <<386, 388, 2, 1>>, <<390, 390, 1, 206>>,
    <<391, 391, 1, 1>>, <<393, 394, 1, 205>>, <<395, 395, 1, 1>>, <<398, 398, 1, 79>>,
    <<399, 399, 1, 202>>, <<400, 400, 1, 203>>, <<401, 401, 1, 1>>, <<403, 403, 1, 205>>,
    <<404, 404, 1, 207>>, <<406, 406, 1, 211>>, <<407, 407, 1, 209>>, <<408, 408, 1, 1>>,
    <<412, 412, 1, 211>>, <<413, 413, 1, 213>>, <<415, 415, 1, 214>>, <<416, 420, 2, 1>>,
    <<422, 422, 1, 218>>, <<423, 423, 1, 1>>, <<425, 425, 1, 218>>, <<428, 428, 1, 1>>,
    <<430, 430, 1, 218>>, <<431, 431, 1, 1>>, <<433, 434, 1, 217>>, <<435, 437, 2, 1>>,
    <<439, 439, 1, 219>>, <<440, 440, 1, 1>>, <<444, 444, 1, 1>>, <<452, 452, 1, 2>>,
    <<453, 453, 1, 1>>, <<455, 455, 1, 2>>, <<456, 456, 1, 1>>, <<458, 458, 1, 2>>,
    <<459, 475, 2, 1>>, <<478, 494, 2, 1>>, <<497, 497, 1, 2>>, <<498, 500, 2, 1>>,
    <<502, 502, 1, -97>>, <<503, 503, 1, -56>>, <<504, 542, 2, 1>>, <<544, 544, 1, -130>>,
    <<546, 562, 2, 1>>, <<570, 570, 1, 10795>>, <<571, 571, 1, 1>>, <<573, 573, 1, -163>>,
    <<574, 574, 1, 10792>>, <<577, 577, 1, 1>>, <<579, 579, 1, -195>>, <<580, 580, 1, 69>>,
    <<581, 581, 1, 71>>, <<582, 590, 2, 1>>, <<880, 882, 2, 1>>, <<886, 886, 1, 1>>,
    <<895, 895, 1, 116>>, <<902, 902, 1, 38>>, <<904, 906, 1, 37>>, <<908, 908, 1, 64>>,
    <<910, 911, 1, 63>>, <<913, 929, 1, 32>>, <<931, 931, 1, 32>>, <<932, 939, 1, 32>>,
    <<975, 975, 1, 8>>, <<984, 1006, 2, 1>>, <<1012, 1012, 1, -60>>, <<1015, 1015, 1, 1>>,
    <<1017, 1017, 1, -7>>, <<1018, 1018, 1, 1>>, <<1021, 1023, 1, -130>>,
    <<1024, 1039, 1, 80>>, <<1040, 1071, 1, 32>>, <<1120, 1152, 2, 1>>, <<1162, 1214, 2, 1>>,
    <<1216, 1216, 1, 15>>, <<1217, 1229, 2, 1>>, <<1232, 1326, 2, 1>>, <<1329, 1366, 1, 48>>,
    <<4256, 4293, 1, 7264>>, <<4295, 4295, 1, 7264>>, <<4301, 4301, 1, 7264>>,
    <<5024, 5103, 1, 38864>>, <<5104, 5109, 1, 8>>, <<7312, 7354, 1, -3008>>,
    <<7357, 7359, 1, -3008>>, <<7680, 7828, 2, 1>>, <<7838, 7838, 1, -7615>>,
    <<7840, 7934, 2, 1>>, <<7944, 7951, 1, -8>>, <<7960, 7965, 1, -8>>, <<7976, 7983, 1, -8>>,
    <<7992, 7999, 1, -8>>, <<8008, 8013, 1, -8>>, <<8025, 8031, 2, -8>>, <<8040, 8047, 1, -8>>,
    <<8072, 8079, 1, -8>>, <<8088, 8095, 1, -8>>, <<8104, 8111, 1, -8>>, <<8120, 8121, 1, -8>>,
    <<8122, 8123, 1, -74>>, <<8124, 8124, 1, -9>>, <<8136, 8139, 1, -86>>,
    <<8140, 8140, 1, -9>>, <<8152, 8153, 1, -8>>, <<8154, 8155, 1, -100>>,
    <<8168, 8169, 1, -8>>, <<8170, 8171, 1, -112>>, <<8172, 8172, 1, -7>>,
    <<8184, 8185, 1, -128>>, <<8186, 8187, 1, -126>>, <<8188, 8188, 1, -9>>,
    <<8486, 8486, 1, -7517>>, <<8490, 8490, 1, -8383>>, <<8491, 8491, 1, -8262>>,
    <<8498, 8498, 1, 28>>, <<8544, 8559, 1, 16>>, <<8579, 8579, 1, 1>>, <<9398, 9423, 1, 26>>,
    <<11264, 11311, 1, 48>>, <<11360, 11360, 1, 1>>, <<11362, 11362, 1, -10743>>,
    <<11363, 11363, 1, -3814>>, <<11364, 11364, 1, -10727>>, <<11367, 11371, 2, 1>>,
    <<11373, 11373, 1, -10780>>, <<11374, 11374, 1, -10749>>, <<11375, 11375, 1, -10783>>,
    <<11376, 11376, 1, -10782>>, <<11378, 11378, 1, 1>>, <<11381, 11381, 1, 1>>,
    <<11390, 11391, 1, -10815>>, <<11392, 11490, 2, 1>>, <<11499, 11501, 2, 1>>,
    <<11506, 11506, 1, 1>>, <<42560, 42604, 2, 1>>, <<42624, 42650, 2, 1>>,
    <<42786, 42798, 2, 1>>, <<42802, 42862, 2, 1>>, <<42873, 42875, 2, 1>>,
    <<42877, 42877, 1, -35332>>, <<42878, 42886, 2, 1>>, <<42891, 42891, 1, 1>>,
    <<42893, 42893, 1, -42280>>, <<42896, 42898, 2, 1>>, <<42902, 42920, 2, 1>>,
    <<42922, 42922, 1, -42308>>, <<42923, 42923, 1, -42319>>, <<42924, 42924, 1, -42315>>,
    <<42925, 42925, 1, -42305>>, <<42926, 42926, 1, -42308>>, <<42928, 42928, 1, -42258>>,
    <<42929, 42929, 1, -42282>>, <<42930, 42930, 1, -42261>>, <<42931, 42931, 1, 928>>,
    <<42932, 42946, 2, 1>>, <<42948, 42948, 1, -48>>, <<42949, 42949, 1, -42307>>,
    <<42950, 42950, 1, -35384>>, <<42951, 42953, 2, 1>>, <<42960, 42960, 1, 1>>,
    <<42966, 42968, 2, 1>>, <<42997, 42997, 1, 1>>, <<65313, 65338, 1, 32>>,
    <<66560, 66599, 1, 40>>, <<66736, 66771, 1, 40>>, <<66928, 66964, 2, 39>>,
    <<66929, 66938, 1, 39>>, <<66941, 66954, 1, 39>>, <<66957, 66962, 1, 39>>,
    <<66965, 66965, 1, 39>>, <<68736, 68786, 1, 64>>, <<71840, 71871, 1, 32>>,
    <<93760, 93791, 1, 32>>, <<125184, 125217, 1, 34>>
    }

\* The ranges <<first, last>> of the code points with the property Cased.
CasedRanges ==
    {
    <<65, 90>>, <<97, 122>>, <<170, 170>>, <<181, 181>>, <<186, 186>>, <<192, 214>>,
    <<216, 246>>, <<248, 442>>, <<444, 447>>, <<452, 659>>, <<661, 696>>, <<704, 705>>,
    <<736, 740>>, <<837, 837>>, <<880, 883>>, <<886, 887>>, <<890, 893>>, <<895, 895>>,
    <<902, 902>>, <<904, 906>>, <<908, 908>>, <<910, 929>>, <<931, 1013>>, <<1015, 1153>>,
    <<1162, 1327>>, <<1329, 1366>>, <<1376, 1416>>, <<4256, 4293>>, <<4295, 4295>>,
    <<4301, 4301>>, <<4304, 4346>>, <<4349, 4351>>, <<5024, 5109>>, <<5112, 5117>>,
    <<7296, 7304>>, <<7312, 7354>>, <<7357, 7359>>, <<7424, 7615>>, <<7680, 7957>>,
    <<7960, 7965>>, <<7968, 8005>>, <<8008, 8013>>, <<8016, 8023>>, <<8025, 8025>>,
    <<8027, 8027>>, <<8029, 8029>>, <<8031, 8061>>, <<8064, 8116>>, <<8118, 8124>>,
    <<8126, 8126>>, <<8130, 8132>>, <<8134, 8140>>, <<8144, 8147>>, <<8150, 8155>>,
    <<8160, 8172>>, <<8178, 8180>>, <<8182, 8188>>, <<8305, 8305>>, <<8319, 8319>>,
    <<8336, 8348>>, <<8450, 8450>>, <<8455, 8455>>, <<8458, 8467>>, <<8469, 8469>>,
    <<8473, 8477>>, <<8484, 8484>>, <<8486, 8486>>, <<8488, 8488>>, <<8490, 8493>>,
    <<8495, 8500>>, <<8505, 8505>>, <<8508, 8511>>, <<8517, 8521>>, <<8526, 8526>>,
    <<8544, 8575>>, <<8579, 8580>>, <<9398, 9449>>, <<11264, 11492>>, <<11499, 11502>>,
    <<11506, 11507>>, <<11520, 11557>>, <<11559, 11559>>, <<11565, 11565>>, <<42560, 42605>>,
    <<42624, 42653>>, <<42786, 42887>>, <<42891, 42894>>, <<42896, 42954>>, <<42960, 42961>>,
    <<42963, 42963>>, <<42965, 42969>>, <<42997, 42998>>, <<43000, 43002>>, <<43824, 43866>>,
    <<43868, 43880>>, <<43888, 43967>>, <<64256, 64262>>, <<64275, 64279>>, <<65313, 65338>>,
    <<65345, 65370>>, <<66560, 66639>>, <<66736, 66771>>, <<66776, 66811>>, <<66928, 66938>>,
    <<66940, 66954>>, <<66956, 66962>>, <<66964, 66965>>, <<66967, 66977>>, <<66979, 66993>>,
    <<66995, 67001>>, <<67003, 67004>>, <<67456, 67456>>, <<67459, 67461>>, <<67463, 67504>>,
    <<67506, 67514>>, <<68736, 68786>>, <<68800, 68850>>, <<71840, 71903>>, <<93760, 93823>>,
    <<119808, 119892>>, <<119894, 119964>>, <<119966, 119967>>, <<119970, 119970>>,
    <<119973, 119974>>, <<119977, 119980>>, <<119982, 119993>>, <<119995, 119995>>,
    <<119997, 120003>>, <<120005, 120069>>, <<120071, 120074>>, <<120077, 120084>>,
    <<120086, 120092>>, <<120094, 120121>>, <<120123, 120126>>, <<120128, 120132>>,
    <<120134, 120134>>, <<120138, 120144>>, <<120146, 120485>>, <<120488, 120512>>,
    <<120514, 120538>>, <<120540, 120570>>, <<120572, 120596>>, <<120598, 120628>>,
    <<120630, 120654>>, <<120656, 120686>>, <<120688, 120712>>, <<120714, 120744>>,
    <<120746, 120770>>, <<120772, 120779>>, <<122624, 122633>>, <<122635, 122654>>,
    <<125184, 125251>>, <<127280, 127305>>, <<127312, 127337>>, <<127344, 127369>>
    }

\* The ranges <<first, last>> of the code points with the property
\* Case_Ignorable.
CaseIgnorableRanges ==
    {
    <<39, 39>>, <<46, 46>>, <<58, 58>>, <<94, 94>>, <<96, 96>>, <<168, 168>>, <<173, 173>>,
    <<175, 175>>, <<180, 180>>, <<183, 184>>, <<688, 879>>, <<884, 885>>, <<890, 890>>,
    <<900, 901>>, <<903, 903>>, <<1155, 1161>>, <<1369, 1369>>, <<1375, 1375>>, <<1425, 1469>>,
    <<1471, 1471>>, <<1473, 1474>>, <<1476, 1477>>, <<1479, 1479>>, <<1524, 1524>>,
    <<1536, 1541>>, <<1552, 1562>>, <<1564, 1564>>, <<1600, 1600>>, <<1611, 1631>>,
    <<1648, 1648>>, <<1750, 1757>>, <<1759, 1768>>, <<1770, 1773>>, <<1807, 1807>>,
    <<1809, 1809>>, <<1840, 1866>>, <<1958, 1968>>, <<2027, 2037>>, <<2042, 2042>>,
    <<2045, 2045>>, <<2070, 2093>>, <<2137, 2139>>, <<2184, 2184>>, <<2192, 2193>>,
    <<2200, 2207>>, <<2249, 2306>>, <<2362, 2362>>, <<2364, 2364>>, <<2369, 2376>>,
    <<2381, 2381>>, <<2385, 2391>>, <<2402, 2403>>, <<2417, 2417>>, <<2433, 2433>>,
    <<2492, 2492>>, <<2497, 2500>>, <<2509, 2509>>, <<2530, 2531>>, <<2558, 2558>>,
    <<2561, 2562>>, <<2620, 2620>>, <<2625, 2626>>, <<2631, 2632>>, <<2635, 2637>>,
    <<2641, 2641>>, <<2672, 2673>>, <<2677, 2677>>, <<2689, 2690>>, <<2748, 2748>>,
    <<2753, 2757>>, <<2759, 2760>>, <<2765, 2765>>, <<2786, 2787>>, <<2810, 2815>>,
    <<2817, 2817>>, <<2876, 2876>>, <<2879, 2879>>, <<2881, 2884>>, <<2893, 2893>>,
    <<2901, 2902>>, <<2914, 2915>>, <<2946, 2946>>, <<3008, 3008>>, <<3021, 3021>>,
    <<3072, 3072>>, <<3076, 3076>>, <<3132, 3132>>, <<3134, 3136>>, <<3142, 3144>>,
    <<3146, 3149>>, <<3157, 3158>>, <<3170, 3171>>, <<3201, 3201>>, <<3260, 3260>>,
    <<3263, 3263>>, <<3270, 3270>>, <<3276, 3277>>, <<3298, 3299>>, <<3328, 3329>>,
    <<3387, 3388>>, <<3393, 3396>>, <<3405, 3405>>, <<3426, 3427>>, <<3457, 3457>>,
    <<3530, 3530>>, <<3538, 3540>>, <<3542, 3542>>, <<3633, 3633>>, <<3636, 3642>>,
    <<3654, 3662>>, <<3761, 3761>>, <<3764, 3772>>, <<3782, 3782>>, <<3784, 3789>>,
    <<3864, 3865>>, <<3893, 3893>>, <<3895, 3895>>, <<3897, 3897>>, <<3953, 3966>>,
    <<3968, 3972>>, <<3974, 3975>>, <<3981, 3991>>, <<3993, 4028>>, <<4038, 4038>>,
    <<4141, 4144>>, <<4146, 4151>>, <<4153, 4154>>, <<4157, 4158>>, <<4184, 4185>>,
    <<4190, 4192>>, <<4209, 4212>>, <<4226, 4226>>, <<4229, 4230>>, <<4237, 4237>>,
    <<4253, 4253>>, <<4348, 4348>>, <<4957, 4959>>, <<5906, 5908>>, <<5938, 5939>>,
    <<5970, 5971>>, <<6002, 6003>>, <<6068, 6069>>, <<6071, 6077>>, <<6086, 6086>>,
    <<6089, 6099>>, <<6103, 6103>>, <<6109, 6109>>, <<6155, 6159>>, <<6211, 6211>>,
    <<6277, 6278>>, <<6313, 6313>>, <<6432, 6434>>, <<6439, 6440>>, <<6450, 6450>>,
    <<6457, 6459>>, <<6679, 6680>>, <<6683, 6683>>, <<6742, 6742>>, <<6744, 6750>>,
    <<6752, 6752>>, <<6754, 6754>>, <<6757, 6764>>, <<6771, 6780>>, <<6783, 6783>>,
    <<6823, 6823>>, <<6832, 6862>>, <<6912, 6915>>, <<6964, 6964>>, <<6966, 6970>>,
    <<6972, 6972>>, <<6978, 6978>>, <<7019, 7027>>, <<7040, 7041>>, <<7074, 7077>>,
    <<7080, 7081>>, <<7083, 7085>>, <<7142, 7142>>, <<7144, 7145>>, <<7149, 7149>>,
    <<7151, 7153>>, <<7212, 7219>>, <<7222, 7223>>, <<7288, 7293>>, <<7376, 7378>>,
    <<7380, 7392>>, <<7394, 7400>>, <<7405, 7405>>, <<7412, 7412>>, <<7416, 7417>>,
    <<7468, 7530>>, <<7544, 7544>>, <<7579, 7679>>, <<8125, 8125>>, <<8127, 8129>>,
    <<8141, 8143>>, <<8157, 8159>>, <<8173, 8175>>, <<8189, 8190>>, <<8203, 8207>>,
    <<8216, 8217>>, <<8228, 8228>>, <<8231, 8231>>, <<8234, 8238>>, <<8288, 8292>>,
    <<8294, 8303>>, <<8305, 8305>>, <<8319, 8319>>, <<8336, 8348>>, <<8400, 8432>>,
    <<11388, 11389>>, <<11503, 11505>>, <<11631, 11631>>, <<11647, 11647>>, <<11744, 11775>>,
    <<11823, 11823>>, <<12293, 12293>>, <<12330, 12333>>, <<12337, 12341>>, <<12347, 12347>>,
    <<12441, 12446>>, <<12540, 12542>>, <<40981, 40981>>, <<42232, 42237>>, <<42508, 42508>>,
    <<42607, 42610>>, <<42612, 42621>>, <<42623, 42623>>, <<42652, 42655>>, <<42736, 42737>>,
    <<42752, 42785>>, <<42864, 42864>>, <<42888, 42890>>, <<42994, 42996>>, <<43000, 43001>>,
    <<43010, 43010>>, <<43014, 43014>>, <<43019, 43019>>, <<43045, 43046>>, <<43052, 43052>>,
    <<43204, 43205>>, <<43232, 43249>>, <<43263, 43263>>, <<43302, 43309>>, <<43335, 43345>>,
    <<43392, 43394>>, <<43443, 43443>>, <<43446, 43449>>, <<43452, 43453>>, <<43471, 43471>>,
    <<43493, 43494>>, <<43561, 43566>>, <<43569, 43570>>, <<43573, 43574>>, <<43587, 43587>>,
    <<43596, 43596>>, <<43632, 43632>>, <<43644, 43644>>, <<43696, 43696>>, <<43698, 43700>>,
    <<43703, 43704>>, <<43710, 43711>>, <<43713, 43713>>, <<43741, 43741>>, <<43756, 43757>>,
    <<43763, 43764>>, <<43766, 43766>>, <<43867, 43871>>, <<43881, 43883>>, <<44005, 44005>>,
    <<44008, 44008>>, <<44013, 44013>>, <<64286, 64286>>, <<64434, 64450>>, <<65024, 65039>>,
    <<65043, 65043>>, <<65056, 65071>>, <<65106, 65106>>, <<65109, 65109>>, <<65279, 65279>>,
    <<65287, 65287>>, <<65294, 65294>>, <<65306, 65306>>, <<65342, 65342>>, <<65344, 65344>>,
    <<65392, 65392>>, <<65438, 65439>>, <<65507, 65507>>, <<65529, 65531>>, <<66045, 66045>>,
    <<66272, 66272>>, <<66422, 66426>>, <<67456, 67461>>, <<67463, 67504>>, <<67506, 67514>>,
    <<68097, 68099>>, <<68101, 68102>>, <<68108, 68111>>, <<68152, 68154>>, <<68159, 68159>>,
    <<68325, 68326>>, <<68900, 68903>>, <<69291, 69292>>, <<69446, 69456>>, <<69506, 69509>>,
    <<69633, 69633>>, <<69688, 69702>>, <<69744, 69744>>, <<69747, 69748>>, <<69759, 69761>>,
    <<69811, 69814>>, <<69817, 69818>>, <<69821, 69821>>, <<69826, 69826>>, <<69837, 69837>>,
    <<69888, 69890>>, <<69927, 69931>>, <<69933, 69940>>, <<70003, 70003>>, <<70016, 70017>>,
    <<70070, 70078>>, <<70089, 70092>>, <<70095, 70095>>, <<70191, 70193>>, <<70196, 70196>>,
    <<70198, 70199>>, <<70206, 70206>>, <<70367, 70367>>, <<70371, 70378>>, <<70400, 70401>>,
    <<70459, 70460>>, <<70464, 70464>>, <<70502, 70508>>, <<70512, 70516>>, <<70712, 70719>>,
    <<70722, 70724>>, <<70726, 70726>>, <<70750, 70750>>, <<70835, 70840>>, <<70842, 70842>>,
    <<70847, 70848>>, <<70850, 70851>>, <<71090, 71093>>, <<71100, 71101>>, <<71103, 71104>>,
    <<71132, 71133>>, <<71219, 71226>>, <<71229, 71229>>, <<71231, 71232>>, <<71339, 71339>>,
    <<71341, 71341>>, <<71344, 71349>>, <<71351, 71351>>, <<71453, 71455>>, <<71458, 71461>>,
    <<71463, 71467>>, <<71727, 71735>>, <<71737, 71738>>, <<71995, 71996>>, <<71998, 71998>>,
    <<72003, 72003>>, <<72148, 72151>>, <<72154, 72155>>, <<72160, 72160>>, <<72193, 72202>>,
    <<72243, 72248>>, <<72251, 72254>>, <<72263, 72263>>, <<72273, 72278>>, <<72281, 72283>>,
    <<72330, 72342>>, <<72344, 72345>>, <<72752, 72758>>, <<72760, 72765>>, <<72767, 72767>>,
    <<72850, 72871>>, <<72874, 72880>>, <<72882, 72883>>, <<72885, 72886>>, <<73009, 73014>>,
    <<73018, 73018>>, <<73020, 73021>>, <<73023, 73029>>, <<73031, 73031>>, <<73104, 73105>>,
    <<73109, 73109>>, <<73111, 73111>>, <<73459, 73460>>, <<78896, 78904>>, <<92912, 92916>>,
    <<92976, 92982>>, <<92992, 92995>>, <<94031, 94031>>, <<94095, 94111>>, <<94176, 94177>>,
    <<94179, 94180>>, <<110576, 110579>>, <<110581, 110587>>, <<110589, 110590>>,
    <<113821, 113822>>, <<113824, 113827>>, <<118528, 118573>>, <<118576, 118598>>,
    <<119143, 119145>>, <<119155, 119170>>, <<119173, 119179>>, <<119210, 119213>>,
    <<119362, 119364>>, <<121344, 121398>>, <<121403, 121452>>, <<121461, 121461>>,
    <<121476, 121476>>, <<121499, 121503>>, <<121505, 121519>>, <<122880, 122886>>,
    <<122888, 122904>>, <<122907, 122913>>, <<122915, 122916>>, <<122918, 122922>>,
    <<123184, 123197>>, <<123566, 123566>>, <<123628, 123631>>, <<125136, 125142>>,
    <<125252, 125259>>, <<127995, 127999>>, <<917505, 917505>>, <<917536, 917631>>,
    <<917760, 917999>>
    }

\* _PyUnicode_IsCased
IsCased(c) == \E r \in CasedRanges : r[1] <= c /\ c <= r[2]

\* _PyUnicode_IsCaseIgnorable
IsCaseIgnorable(c) == \E r \in CaseIgnorableRanges : r[1] <= c /\ c <= r[2]

\* str.lower(), one code point (_PyUnicode_ToLowerFull): the code points of
\* the lower-case form.  U+0130 is the one code point whose lower-case form
\* has two code points.
LowerChar(c) ==
    IF c < 128 THEN (IF c \in 65..90 THEN <<c + 32>> ELSE <<c>>)
    ELSE IF c = 304 THEN <<105, 775>>
    ELSE LET rules == {r \in LowerRanges : r[1] <= c /\ c <= r[2] /\ (c - r[1]) % r[3] = 0}
         IN IF rules = {} THEN <<c>> ELSE <<c + (CHOOSE r \in rules : TRUE)[4]>>

\* handle_capital_sigma of str.lower(): the lower-case form of the capital
\* sigma at position i of s.  It is the final sigma U+03C2 when, case-
\* ignorable code points skipped, a cased code point comes before it and no
\* cased code point comes after it, and U+03C3 otherwise.
handle_capital_sigma(s, i) ==
    LET before == {j \in 1..(i - 1) : ~IsCaseIgnorable(s[j])}
        after == {j \in (i + 1)..Len(s) : ~IsCaseIgnorable(s[j])}
        Last(S) == CHOOSE j \in S : \A k \in S : k <= j
        First(S) == CHOOSE j \in S : \A k \in S : j <= k
        final_sigma == /\ before # {}
                       /\ IsCased(s[Last(before)])
                       /\ (after = {} \/ ~IsCased(s[First(after)]))
    IN IF final_sigma THEN 962 ELSE 963

\* str.lower() of the code points i.. of s, for a str with code points
\* outside ASCII: the capital sigma U+03A3 is lowered by its context, every
\* other code point by LowerChar.
RECURSIVE LowerExpanding(_, _)
LowerExpanding(s, i) ==
    IF i > Len(s) THEN <<>>
    ELSE (IF s[i] = 931 THEN <<handle_capital_sigma(s, i)>> ELSE LowerChar(s[i]))
         \o LowerExpanding(s, i + 1)

\* str.lower(): every code point is replaced by its lower-case form.
Lower(s) ==
    IF \A i \in 1..Len(s) : s[i] < 128
    THEN [i \in 1..Len(s) |-> IF s[i] \in 65..90 THEN s[i] + 32 ELSE s[i]]
    ELSE LowerExpanding(s, 1)

\* list.index(x): the 0-based position of the first element equal to x, or
\* None where Python raises ValueError.
RECURSIVE ListIndexFrom(_, _, _)
ListIndexFrom(i, list, x) ==
    IF i >= Len(list) THEN None
    ELSE IF list[i + 1] = x THEN i
    ELSE ListIndexFrom(i + 1, list, x)

ListIndex(list, x) == ListIndexFrom(0, list, x)

\* The elements of a list, as a set.
Range(s) == {s[i] : i \in 1..Len(s)}

\* Python's < on str: lexicographic on code points.
RECURSIVE StrLessFrom(_, _, _)
StrLessFrom(i, a, b) ==
    IF i > Len(a) THEN i <= Len(b)
    ELSE IF i > Len(b) THEN FALSE
    ELSE IF a[i] < b[i] THEN TRUE
    ELSE IF a[i] > b[i] THEN FALSE
    ELSE StrLessFrom(i + 1, a, b)

StrLess(a, b) == StrLessFrom(1, a, b)

\* list(sorted(S)) for a set S of str.
RECURSIVE SortedNames(_)
SortedNames(S) ==
    IF S = {} THEN <<>>
    ELSE LET m == CHOOSE x \in S : \A y \in S \ {x} : StrLess(x, y)
         IN <<m>> \o SortedNames(S \ {m})

\* All sequences over S of length lo..hi.
SeqsOf(S, lo, hi) == UNION {[1..n -> S] : n \in lo..hi}

\* The sequences of SeqsOf without a repeated element.
DistinctSeqsOf(S, lo, hi) ==
    {s \in SeqsOf(S, lo, hi) : \A i, j \in 1..Len(s) : i # j => s[i] # s[j]}

-----------------------------------------------------------------------------
(* psa/importer.py *)

\* _get_armature_bone_index_for_psa_bone: scan the armature bone names in
\* order and return the index of the first that equals the PSA bone name
\* under the mapping mode, or None.
RECURSIVE ScanArmatureBoneNames(_, _, _, _)
ScanArmatureBoneNames(armature_bone_index, psa_bone_name, names, mode) ==
    IF armature_bone_index >= Len(names) THEN None
    ELSE IF mode = "CASE_INSENSITIVE"
         THEN IF Lower(names[armature_bone_index + 1]) = Lower(psa_bone_name)
              THEN armature_bone_index
              ELSE ScanArmatureBoneNames(armature_bone_index + 1, psa_bone_name, names, mode)
         ELSE IF names[armature_bone_index + 1] = psa_bone_name
              THEN armature_bone_index
              ELSE ScanArmatureBoneNames(armature_bone_index + 1, psa_bone_name, names, mode)

get_armature_bone_index_for_psa_bone(psa_bone_name, names, mode) ==
    ScanArmatureBoneNames(0, psa_bone_name, names, mode)

\* The value import_psa stores in psa_to_armature_bone_indices for a PSA
\* bone whose first match is free: armature_bone_names.index(psa_bone_name).
MappedArmatureBoneIndex(psa_bone_name, armature_bone_index, names) ==
    ListIndex(names, psa_bone_name)

\* Mutant of MatchedBoneName: the matched PSA bone keeps its own name.
MatchedBoneName_KeepsSourceName(psa_bone_name, armature_bone_index, names) ==
    psa_bone_name

\* The name import_psa appends to psa_bone_names for a PSA bone that matched
\* armature bone armature_bone_index.
MatchedBoneName(psa_bone_name, armature_bone_index, names) ==
    names[armature_bone_index + 1]

\* Mutant of IsClaimed: the index is looked up among the values of the dict
\* (the PSA bone indices) instead of among its keys.
IsClaimed_LooksUpValues(armature_bone_index, claimed) ==
    armature_bone_index \in {claimed[k] : k \in DOMAIN claimed}

\* "armature_bone_index not in armature_to_psa_bone_indices", negated: the
\* armature bone has been claimed by an earlier PSA bone (importer.py 95).
IsClaimed(armature_bone_index, claimed) == armature_bone_index \in DOMAIN claimed

\* The tuple import_psa appends to duplicate_mappings (importer.py 100).
CollisionEntry(psa_index, armature_bone_index, claimed) ==
    <<psa_index, armature_bone_index, claimed[armature_bone_index]>>

\* dict[key] = value
DictSet(d, key, value) == [k \in (DOMAIN d) \cup {key} |-> IF k = key THEN value ELSE d[k]]

EmptyDict == [k \in {} |-> None]

\* import_psa is not running: nothing is being imported.
ImportAtRest ==
    /\ pc = "idle"
    /\ psa_bones = <<>>
    /\ armature_bone_names = <<>>
    /\ bone_mapping_mode = "EXACT"
    /\ sequence_names = <<>>
    /\ psa_bone_index = 0
    /\ psa_to_armature_bone_indices = EmptyDict
    /\ armature_to_psa_bone_indices = EmptyDict
    /\ psa_bone_names = <<>>
    /\ duplicate_mappings = <<>>
    /\ warnings = <<>>
    /\ import_bones = <<>>
    /\ sequence_index = 0
    /\ actions = <<>>
    /\ returned = FALSE

\* The export dialog is not open: the scene and the lists are empty.
ExportAtRest ==
    /\ data_actions = <<>>
    /\ timeline_markers = <<>>
    /\ nla_tracks = <<>>
    /\ has_animation_data = FALSE
    /\ should_override_animation_data = FALSE
    /\ animation_data_override = "None"
    /\ action_list = <<>>
    /\ marker_list = <<>>
    /\ export_pc = "idle"

\* get_sequence_fps is not being called.
FpsAtRest ==
    /\ fps_source = "SCENE"
    /\ fps_custom = 1
    /\ scene_fps = 1
    /\ fps_actions = <<>>
    /\ fps_result = None
    /\ fps_pc = "idle"

\* No operator is executing.
OpIdle ==
    /\ operator = "none"
    /\ op_pc = "idle"
    /\ op_result = "none"
    /\ reports = <<>>
    /\ export_sequences = <<>>
    /\ sequence_list = <<>>
    /\ builder_called = FALSE
    /\ document = "none"
    /\ importer_called = FALSE
    /\ writer_called = FALSE

\* No operator is running and pg.sequence_source has its default.
OpAtRest ==
    /\ OpIdle
    /\ sequence_source = "ACTIONS"

\* The PSK export dialog has not been invoked.
PskAtRest ==
    /\ input_objects_found = FALSE
    /\ mesh_objects = <<>>
    /\ material_list = <<>>
    /\ fileselect_added = FALSE

\* No key is being converted.
ConvertAtRest ==
    /\ armature_bone = <<>>
    /\ import_bone = <<>>
    /\ key_data = <<>>
    /\ fcurve_data = <<>>
    /\ convert_pc = "idle"

\* No sequence data matrix is being converted.
MatrixAtRest ==
    /\ psa_matrix = <<>>
    /\ matrix_bones = <<>>
    /\ sequence_data_matrix = <<>>
    /\ cell_bone_index = 0
    /\ cell_frame_index = 0
    /\ cell_calls = <<>>
    /\ reordered_matrix = <<>>
    /\ keys_in_flight = <<>>
    /\ reordered_calls = <<>>
    /\ matrix_pc = "idle"

\* The sequence loop of import_psa is not running.
SequencesAtRest ==
    /\ bpy_actions = <<>>
    /\ previous_actions = <<>>
    /\ import_options = <<>>
    /\ requested_sequences = <<>>
    /\ seq_index = 0
    /\ seq_action = 0
    /\ sequence_actions = <<>>
    /\ seq_pc = "idle"

\* No chunk is being decoded.
ChunkAtRest ==
    /\ chunk_kind = "none"
    /\ chunk_written_as = 0
    /\ chunk_record_size = 0
    /\ chunk_bytes = <<>>
    /\ chunk_decoded = <<>>
    /\ chunk_pc = "idle"

\* No document is being written or read.
CodecAtRest ==
    /\ psk_document = <<>>
    /\ psk_wide = FALSE
    /\ psk_file = <<>>
    /\ psk_read = <<>>
    /\ codec_pc = "idle"

\* No call of pg.material_list.move has been made.
NoMove == [executed |-> FALSE, from |-> 0, to |-> 0, length |-> 0]

\* The material list has not been touched: the cursor has its default.
CursorAtRest ==
    /\ material_list_index = 0
    /\ material_list_move = NoMove
    /\ cursor_pc = "idle"

\* No file has been chosen in the import dialog.
NoPsaFile == [readable |-> FALSE, sequences |-> <<>>, bones |-> <<>>]

\* load_psa_file has not been called: PSA_PG_import has its defaults.
LoadAtRest ==
    /\ psa_file = NoPsaFile
    /\ pg_sequence_list = <<>>
    /\ pg_psa_bones = <<>>
    /\ psa_error = ""
    /\ sequence_filter_name = <<>>
    /\ sequence_use_filter_regex = FALSE
    /\ sequence_filter_is_selected = FALSE
    /\ sequence_use_filter_invert = FALSE
    /\ load_pc = "idle"

(* The actions of bpy.data.actions in import_psa (importer.py 163-243).     *)
(* An action of bpy.data.actions is a record of its name, its f-curves      *)
(* ("none", "previous": those it had before the import, "created": new      *)
(* f-curves without keyframe points, "written": new f-curves with the       *)
(* keyframes of the sequence) and its custom property psa_sequence_fps      *)
(* ("none", "previous", "imported").                                        *)


\* The names of the actions of bpy.data.actions.
ActionNames(store) == {store[i].name : i \in 1..Len(store)}

\* bpy.data.actions[action_name]: the position of the action, from 1.
ActionPosition(store, action_name) ==
    CHOOSE i \in 1..Len(store) : store[i].name = action_name

\* The suffix Blender appends to the name of a new data-block whose name is
\* taken: '.001', '.002', ...
NameSuffix(n) == <<46, 48, 48, 48 + n>>

\* The name bpy.data.actions.new(name=action_name) gives the new action.
UniqueActionName(store, action_name) ==
    IF action_name \notin ActionNames(store) THEN action_name
    ELSE action_name \o NameSuffix(
             CHOOSE n \in 1..9 :
                 /\ (action_name \o NameSuffix(n)) \notin ActionNames(store)
                 /\ \A m \in 1..(n - 1) : (action_name \o NameSuffix(m)) \in ActionNames(store))

\* Mutant of UsesExistingAction: an existing action is used whether or not
\* should_overwrite is set.
UsesExistingAction_IgnoresOption(store, options, action_name) ==
    action_name \in ActionNames(store)

\* importer.py 170: options.should_overwrite and action_name in bpy.data.actions
UsesExistingAction(store, options, action_name) ==
    options.should_overwrite /\ action_name \in ActionNames(store)

\* importer.py 176-194: the f-curves of the action are removed and new ones
\* are created for the mapped bones.
WithNewFCurves(action) == [action EXCEPT !.fcurves = "created"]

\* The actions that exist when import_psa is called: some of 'S1' and 'PS1'.
PreviousActionsSet ==
    LET old(name) == [name |-> name, fcurves |-> "previous", psa_sequence_fps |-> "previous"]
    IN {<<>>, <<old(<<83, 49>>)>>, <<old(<<80, 83, 49>>)>>,
        <<old(<<83, 49>>), old(<<80, 83, 49>>)>>}

\* PsaImportOptions: the options the sequence loop reads; the prefix is
\* empty or 'P'.
ImportOptionsSet ==
    [should_overwrite : BOOLEAN, should_write_keyframes : BOOLEAN,
     should_write_metadata : BOOLEAN, should_stash : BOOLEAN,
     action_name_prefix : {<<>>, <<80>>}]

\* PsaImportOptions.__init__ (importer.py 14-24): the defaults of the
\* options the model follows.
DefaultImportOptions ==
    [should_overwrite |-> FALSE, should_write_keyframes |-> TRUE,
     should_write_metadata |-> TRUE, should_stash |-> FALSE,
     action_name_prefix |-> <<>>]

\* The options import_psa is called with in the model of the whole call:
\* the metadata are written and there is no prefix.
ImportPsaOptionsSet ==
    {o \in ImportOptionsSet : o.should_write_metadata /\ o.action_name_prefix = <<>>}

\* The actions that exist when import_psa is called in the model of the whole
\* call: none, or 'S1'.
ImportPreviousActionsSet ==
    {p \in PreviousActionsSet : \A i \in 1..Len(p) : p[i].name = <<83, 49>>}

\* The NLA tracks import_psa adds when should_stash is set (importer.py
\* 239-243): one muted track for every action, named after it, with one
\* strip of the action that starts at frame 0.
StashTracks(action_names) ==
    [i \in 1..Len(action_names) |->
        [name |-> action_names[i],
         mute |-> TRUE,
         strips |-> << [name |-> action_names[i], frame_start |-> 0,
                        action |-> action_names[i]] >>]]

\* The state import_psa starts from: everything it builds is empty; the
\* armature has no animation data.  The files of more than one bone are
\* imported with the default options into a scene without actions.
ImportInit ==
    /\ psa_bones \in SeqsOf(BoneNameSet, 1, MaxPsaBones)
    /\ armature_bone_names \in DistinctSeqsOf(BoneNameSet, 1, MaxArmatureBones)
    /\ bone_mapping_mode \in {"EXACT", "CASE_INSENSITIVE"}
    /\ sequence_names \in {[i \in 1..n |-> <<83, 48 + i>>] : n \in 1..MaxSequences}
    /\ pc = "map_bones"
    /\ psa_bone_index = 0
    /\ psa_to_armature_bone_indices = EmptyDict
    /\ armature_to_psa_bone_indices = EmptyDict
    /\ psa_bone_names = <<>>
    /\ duplicate_mappings = <<>>
    /\ warnings = <<>>
    /\ import_bones = <<>>
    /\ sequence_index = 0
    /\ actions = <<>>
    /\ returned = FALSE
    /\ previous_actions \in ImportPreviousActionsSet
    /\ bpy_actions = previous_actions
    /\ import_options \in ImportPsaOptionsSet
    /\ Len(psa_bones) > 1 =>
           (import_options = DefaultImportOptions /\ previous_actions = <<>>)
    /\ requested_sequences = <<>>
    /\ seq_index = 0
    /\ seq_action = 0
    /\ sequence_actions = <<>>
    /\ seq_pc = "idle"
    /\ ExportAtRest
    /\ FpsAtRest
    /\ OpAtRest
    /\ PskAtRest
    /\ ConvertAtRest
    /\ MatrixAtRest
    /\ ChunkAtRest
    /\ CodecAtRest
    /\ CursorAtRest
    /\ LoadAtRest

\* One iteration of the mapping loop (importer.py 90-103).  The
\* UnicodeDecodeError of the decode and the ValueError of list.index abort
\* import_psa: nothing of the iteration is stored.
MapBone ==
    /\ pc = "map_bones"
    /\ psa_bone_index < Len(psa_bones)
    /\ LET psa_bone_name == Decode1252(psa_bones[psa_bone_index + 1])
           armature_bone_index ==
               get_armature_bone_index_for_psa_bone(psa_bone_name, armature_bone_names,
                                                    bone_mapping_mode)
           mapped == MappedArmatureBoneIndex(psa_bone_name, armature_bone_index,
                                             armature_bone_names)
       IN IF psa_bone_name = UnicodeDecodeError
          THEN /\ pc' = "raised"
               /\ UNCHANGED <<psa_bone_index, psa_to_armature_bone_indices,
                              armature_to_psa_bone_indices, psa_bone_names,
                              duplicate_mappings>>
          ELSE IF armature_bone_index # None
          THEN IF ~IsClaimed(armature_bone_index, armature_to_psa_bone_indices)
               THEN IF mapped = None
                    THEN /\ pc' = "raised"
                         /\ UNCHANGED <<psa_bone_index, psa_to_armature_bone_indices,
                                        armature_to_psa_bone_indices, psa_bone_names,
                                        duplicate_mappings>>
                    ELSE /\ psa_to_armature_bone_indices' =
                                DictSet(psa_to_armature_bone_indices, psa_bone_index, mapped)
                         /\ armature_to_psa_bone_indices' =
                                DictSet(armature_to_psa_bone_indices, armature_bone_index,
                                        psa_bone_index)
                         /\ psa_bone_names' =
                                Append(psa_bone_names,
                                       MatchedBoneName(psa_bone_name, armature_bone_index,
                                                       armature_bone_names))
                         /\ psa_bone_index' = psa_bone_index + 1
                         /\ UNCHANGED <<pc, duplicate_mappings>>
               ELSE /\ duplicate_mappings' =
                           Append(duplicate_mappings,
                                  CollisionEntry(psa_bone_index, armature_bone_index,
                                                 armature_to_psa_bone_indices))
                    /\ psa_bone_names' =
                           Append(psa_bone_names,
                                  MatchedBoneName(psa_bone_name, armature_bone_index,
                                                  armature_bone_names))
                    /\ psa_bone_index' = psa_bone_index + 1
                    /\ UNCHANGED <<pc, psa_to_armature_bone_indices,
                                   armature_to_psa_bone_indices>>
          ELSE /\ psa_bone_names' = Append(psa_bone_names, psa_bone_name)
               /\ psa_bone_index' = psa_bone_index + 1
               /\ UNCHANGED <<pc, psa_to_armature_bone_indices, armature_to_psa_bone_indices,
                              duplicate_mappings>>
    /\ UNCHANGED <<psa_bones, armature_bone_names, bone_mapping_mode, sequence_names,
                   warnings, import_bones, sequence_index, actions, returned>>
    /\ UNCHANGED <<export_vars, fps_vars, op_vars, psk_vars, convert_vars, matrix_vars, seq_vars, chunk_vars, codec_vars, cursor_vars, load_vars>>

\* The warning import_psa formats for one duplicate mapping (importer.py 107-111).
DuplicateWarning(d) ==
    [kind |-> "duplicate",
     psa_bone_index |-> d[1],
     psa_bone_name |-> psa_bone_names[d[1] + 1],
     armature_bone_index |-> d[2],
     armature_bone_name |-> armature_bone_names[d[2] + 1],
     mapped_psa_bone_index |-> d[3],
     mapped_psa_bone_name |-> psa_bone_names[d[3] + 1]]

\* set(psa_bone_names).difference(set(armature_bone_names)) (importer.py 114).
missing_bone_names == Range(psa_bone_names) \ Range(armature_bone_names)

\* The warning import_psa formats for the missing bones (importer.py 116-120).
MissingWarning(missing) ==
    [kind |-> "missing",
     count |-> Cardinality(missing),
     names |-> SortedNames(missing)]

\* The end of the mapping loop: the duplicate warnings, the missing-bones
\* warning and the import bone table (importer.py 105-136).
ReportAndBuildImportBones ==
    /\ pc = "map_bones"
    /\ psa_bone_index = Len(psa_bones)
    /\ warnings' =
           [i \in 1..Len(duplicate_mappings) |-> DuplicateWarning(duplicate_mappings[i])]
           \o (IF Cardinality(missing_bone_names) > 0
               THEN <<MissingWarning(missing_bone_names)>>
               ELSE <<>>)
    /\ import_bones' =
           [i \in 1..Len(psa_bones) |->
               IF (i - 1) \notin DOMAIN psa_to_armature_bone_indices
               THEN [is_none |-> TRUE, armature_bone |-> None, pose_bone |-> <<>>]
               ELSE [is_none |-> FALSE,
                     armature_bone |-> ListIndex(armature_bone_names, psa_bone_names[i]),
                     pose_bone |-> psa_bone_names[i]]]
    /\ pc' = "sequences"
    /\ UNCHANGED <<psa_bones, armature_bone_names, bone_mapping_mode, sequence_names,
                   psa_bone_index, psa_to_armature_bone_indices,
                   armature_to_psa_bone_indices, psa_bone_names, duplicate_mappings,
                   sequence_index, actions, returned>>
    /\ UNCHANGED <<export_vars, fps_vars, op_vars, psk_vars, convert_vars, matrix_vars, seq_vars, chunk_vars, codec_vars, cursor_vars, load_vars>>

\* The f-curves import_psa creates in an action: seven per mapped PSA bone,
\* grouped under the pose bone's name (importer.py 181-194).
FCurveGroups ==
    {import_bones[p + 1].pose_bone : p \in DOMAIN psa_to_armature_bone_indices}

\* One iteration of the sequence loop (importer.py 165-233): the action is
\* looked up or created (170-173); when keyframes are written its f-curves
\* are replaced by those of the mapped bones and get the keyframes of the
\* sequence (175-223); the metadata are written (226-227) and the action is
\* appended to actions (231).  fcurve_groups and keyframes are the f-curve
\* groups and the keyframes per f-curve this iteration has written.
\* read_sequence_data_matrix (197) is a call of the reader with no handler
\* around it: when it raises, the exception leaves import_psa with the new
\* f-curves created in the action, and nothing else of the iteration done.
ImportSequence ==
    /\ pc = "sequences"
    /\ sequence_index < Len(sequence_names)
    /\ LET action_name == import_options.action_name_prefix
                              \o sequence_names[sequence_index + 1]
           existing == UsesExistingAction(bpy_actions, import_options, action_name)
           store == IF existing THEN bpy_actions
                    ELSE Append(bpy_actions,
                                [name |-> UniqueActionName(bpy_actions, action_name),
                                 fcurves |-> "none", psa_sequence_fps |-> "none"])
           position == IF existing THEN ActionPosition(bpy_actions, action_name)
                       ELSE Len(store)
           written == IF import_options.should_write_keyframes
                      THEN [store EXCEPT ![position].fcurves = "written"]
                      ELSE store
       IN \/ /\ \E frame_count \in FrameCountSet :
                   actions' =
                       Append(actions,
                              [name |-> store[position].name,
                               fcurve_groups |-> IF import_options.should_write_keyframes
                                                 THEN FCurveGroups ELSE {},
                               keyframes |-> IF import_options.should_write_keyframes
                                             THEN frame_count ELSE 0])
             /\ bpy_actions' =
                    IF import_options.should_write_metadata
                    THEN [written EXCEPT ![position].psa_sequence_fps = "imported"]
                    ELSE written
             /\ sequence_index' = sequence_index + 1
             /\ UNCHANGED pc
          \/ /\ import_options.should_write_keyframes
             /\ bpy_actions' = [store EXCEPT ![position].fcurves = "created"]
             /\ pc' = "raised"
             /\ UNCHANGED <<actions, sequence_index>>
    /\ UNCHANGED <<psa_bones, armature_bone_names, bone_mapping_mode, sequence_names,
                   psa_bone_index, psa_to_armature_bone_indices,
                   armature_to_psa_bone_indices, psa_bone_names, duplicate_mappings,
                   warnings, import_bones, returned>>
    /\ UNCHANGED <<previous_actions, import_options, requested_sequences, seq_index,
                   seq_action, sequence_actions, seq_pc>>
    /\ UNCHANGED <<export_vars, fps_vars, op_vars, psk_vars, convert_vars, matrix_vars, chunk_vars, codec_vars, cursor_vars, load_vars>>

\* The end of import_psa (importer.py 235-247): with should_stash the
\* animation data of the armature is created when it has none and the
\* actions are stashed on new NLA tracks; the result is returned.
ReturnResult ==
    /\ pc = "sequences"
    /\ sequence_index = Len(sequence_names)
    /\ IF import_options.should_stash
       THEN /\ has_animation_data' = TRUE
            /\ nla_tracks' = nla_tracks
                                 \o StashTracks([i \in 1..Len(actions) |-> actions[i].name])
       ELSE UNCHANGED <<has_animation_data, nla_tracks>>
    /\ pc' = "done"
    /\ returned' = TRUE
    /\ UNCHANGED <<psa_bones, armature_bone_names, bone_mapping_mode, sequence_names,
                   psa_bone_index, psa_to_armature_bone_indices,
                   armature_to_psa_bone_indices, psa_bone_names, duplicate_mappings,
                   warnings, import_bones, sequence_index, actions>>
    /\ UNCHANGED <<data_actions, timeline_markers, should_override_animation_data,
                   animation_data_override, action_list, marker_list, export_pc>>
    /\ UNCHANGED <<fps_vars, op_vars, psk_vars, convert_vars, matrix_vars, seq_vars, chunk_vars, codec_vars, cursor_vars, load_vars>>

ImportNext ==
    \/ MapBone
    \/ ReportAndBuildImportBones
    \/ ImportSequence
    \/ ReturnResult

SpecImport == ImportInit /\ [][ImportNext]_vars

-----------------------------------------------------------------------------
(* psa/export/operators.py *)
(* Frame positions are whole numbers in the model; int() leaves them as    *)
(* they are.                                                               *)

\* '/', the separator of the pattern r'(.+)/(.+)'.
ChSlash == 47
\* '#', the prefix of the names left out of the lists.
ChHash == 35
\* The newline, which '.' of a regular expression does not match.
ChNewline == 10

\* 'Run/RunBack'
ChRunRunBack == <<82, 117, 110, 47, 82, 117, 110, 66, 97, 99, 107>>
\* 'Run'
ChRun == <<82, 117, 110>>
\* 'RunBack'
ChRunBack == <<82, 117, 110, 66, 97, 99, 107>>

\* The characters of the action and pose marker names of the model: 'A', '/'.
NameAlphabet == {65, ChSlash}

\* The names an action may carry in the model: every string over the alphabet
\* up to MaxNameLen, the same with a leading '#', and 'Run/RunBack'.
ExportNameSet ==
    SeqsOf(NameAlphabet, 1, MaxNameLen)
        \cup {<<ChHash>> \o n : n \in SeqsOf(NameAlphabet, 0, MaxNameLen - 1)}
        \cup {ChRunRunBack}

\* The names a pose marker may carry in the model: every string over the
\* alphabet up to MaxPoseMarkerNameLen (a marker may be unnamed), and '#',
\* '#A', '#A/A', 'A/A/A', 'A/AA/' and 'Run/RunBack'.
PoseMarkerNameSet ==
    SeqsOf(NameAlphabet, 0, MaxPoseMarkerNameLen)
        \cup {<<ChHash>>, <<ChHash, 65>>, <<ChHash, 65, ChSlash, 65>>,
              <<65, ChSlash, 65, ChSlash, 65>>, <<65, ChSlash, 65, 65, ChSlash>>,
              ChRunRunBack}

\* The names of the timeline markers of the model: 'M', 'N', '#M'.
MarkerNameSet == {<<77>>, <<78>>, <<ChHash, 77>>}

\* The bones of the armature that is exported.
ExportArmatureBones == {ChRoot, ChHead}

\* What an f-curve's data_path names: a bone (group 1 of the pattern of
\* is_action_for_armature), or <<>> when the path does not match the pattern.
FCurvePathSet == {<<>>, ChRoot, ChRootLower}

\* Mutant of StartsWithHash: no name is taken to begin with '#'.
StartsWithHash_Never(name) == FALSE

\* str.startswith('#')
StartsWithHash(name) == Len(name) > 0 /\ name[1] = ChHash

\* is_action_for_armature: the action has an f-curve whose data path names a
\* bone of the armature.
is_action_for_armature(bone_names, action) ==
    IF Len(action.fcurves) = 0 THEN FALSE
    ELSE \E i \in 1..Len(action.fcurves) :
            /\ action.fcurves[i] # <<>>
            /\ action.fcurves[i] \in bone_names

\* The length of the part of a name before its first newline: where the
\* '.' of the pattern stops.
RECURSIVE FirstLineLen(_, _)
FirstLineLen(i, name) ==
    IF i > Len(name) THEN Len(name)
    ELSE IF name[i] = ChNewline THEN i - 1
    ELSE FirstLineLen(i + 1, name)

\* The position of the last '/' of line at or before k that leaves at least
\* one character before it, 0 when there is none.
RECURSIVE LastSlashFrom(_, _)
LastSlashFrom(k, line) ==
    IF k < 2 THEN 0
    ELSE IF line[k] = ChSlash THEN k
    ELSE LastSlashFrom(k - 1, line)

\* Mutant of ReversedMatchSlash: the pattern r'(.*)/(.*)', whose groups may
\* be empty.
ReversedMatchSlash_AllowsEmpty(name) ==
    LET n == FirstLineLen(1, name)
        slashes == {k \in 1..n : name[k] = ChSlash}
    IN IF slashes = {} THEN 0 ELSE CHOOSE k \in slashes : \A j \in slashes : j <= k

\* re.match(r'(.+)/(.+)', name): the position of the '/' the match splits
\* the name at, 0 when the name does not match.  The first group is greedy:
\* the match uses the last '/' of the first line that has a character on
\* each side.
ReversedMatchSlash(name) ==
    LET n == FirstLineLen(1, name)
    IN LastSlashFrom(n - 1, name)

\* reversed_match.group(1)
ForwardName(name) == SubSeq(name, 1, ReversedMatchSlash(name) - 1)

\* reversed_match.group(2)
BackwardsName(name) ==
    SubSeq(name, ReversedMatchSlash(name) + 1, FirstLineLen(1, name))

\* Mutant of ReversedSequences: the backwards sequence keeps the forward range.
ReversedSequences_SameRange(forward_name, backwards_name, frame_start, frame_end) ==
    << <<forward_name, frame_start, frame_end>>, <<backwards_name, frame_start, frame_end>> >>

\* The two sequences returned for a name that matches the pattern.
ReversedSequences(forward_name, backwards_name, frame_start, frame_end) ==
    << <<forward_name, frame_start, frame_end>>, <<backwards_name, frame_end, frame_start>> >>

\* The sequences returned for a name and a frame range.
SequencesFromName(name, frame_start, frame_end) ==
    IF ReversedMatchSlash(name) # 0
    THEN ReversedSequences(ForwardName(name), BackwardsName(name), frame_start, frame_end)
    ELSE << <<name, frame_start, frame_end>> >>

\* get_sequences_from_action
get_sequences_from_action(action) ==
    LET frame_start == action.frame_range[1]
        frame_end == action.frame_range[2]
    IN SequencesFromName(action.name, frame_start, frame_end)

\* get_sequences_from_action_pose_marker; pose_marker_index is 0-based.
get_sequences_from_action_pose_marker(action, pose_markers, pose_marker, pose_marker_index) ==
    LET frame_start == pose_marker.frame
        frame_end == IF pose_marker_index + 1 < Len(pose_markers)
                     THEN pose_markers[pose_marker_index + 2].frame
                     ELSE action.frame_range[2]
    IN SequencesFromName(pose_marker.name, frame_start, frame_end)

\* sorted(markers, key=lambda x: x.frame): a stable sort.
RECURSIVE SortedByFrame(_)
SortedByFrame(markers) ==
    IF markers = <<>> THEN <<>>
    ELSE LET rest == SortedByFrame(SubSeq(markers, 1, Len(markers) - 1))
             m == markers[Len(markers)]
             k == Cardinality({i \in 1..Len(rest) : rest[i].frame <= m.frame})
         IN SubSeq(rest, 1, k) \o <<m>> \o SubSeq(rest, k + 1, Len(rest))

\* The item update_actions_and_timeline_markers adds to pg.action_list.
ActionListItem(action_index, sequence, is_pose_marker) ==
    [action |-> action_index,
     name |-> sequence[1],
     is_selected |-> FALSE,
     is_pose_marker |-> is_pose_marker,
     frame_start |-> sequence[2],
     frame_end |-> sequence[3]]

\* The items added for a list of sequences.
ActionListItems(action_index, sequences, is_pose_marker) ==
    [i \in 1..Len(sequences) |-> ActionListItem(action_index, sequences[i], is_pose_marker)]

\* The items added for the pose markers pose_marker_index.. of an action, in
\* frame order; the markers whose name begins with '#' are left out.
RECURSIVE PoseMarkerItemsFrom(_, _, _, _)
PoseMarkerItemsFrom(action_index, action, pose_markers, pose_marker_index) ==
    IF pose_marker_index >= Len(pose_markers) THEN <<>>
    ELSE LET pose_marker == pose_markers[pose_marker_index + 1]
             items ==
                 IF StartsWithHash(pose_marker.name) THEN <<>>
                 ELSE ActionListItems(action_index,
                                      get_sequences_from_action_pose_marker(
                                          action, pose_markers, pose_marker, pose_marker_index),
                                      TRUE)
         IN items \o PoseMarkerItemsFrom(action_index, action, pose_markers,
                                         pose_marker_index + 1)

\* The items added for one action of bpy.data.actions (operators.py 47-72).
ItemsOfAction(action_index, action) ==
    IF ~is_action_for_armature(ExportArmatureBones, action) THEN <<>>
    ELSE (IF ~StartsWithHash(action.name)
          THEN ActionListItems(action_index, get_sequences_from_action(action), FALSE)
          ELSE <<>>)
         \o PoseMarkerItemsFrom(action_index, action, SortedByFrame(action.pose_markers), 0)

\* The items added for the actions action_index.. of bpy.data.actions.
RECURSIVE ItemsOfActionsFrom(_, _)
ItemsOfActionsFrom(action_index, all_actions) ==
    IF action_index >= Len(all_actions) THEN <<>>
    ELSE ItemsOfAction(action_index, all_actions[action_index + 1])
         \o ItemsOfActionsFrom(action_index + 1, all_actions)

\* Every strip of a list of tracks, in track order, with its track's mute flag.
RECURSIVE StripsOfTracks(_)
StripsOfTracks(tracks) ==
    IF tracks = <<>> THEN <<>>
    ELSE [i \in 1..Len(tracks[1].strips) |->
             [mute |-> tracks[1].mute,
              frame_start |-> tracks[1].strips[i].frame_start,
              frame_end |-> tracks[1].strips[i].frame_end]]
         \o StripsOfTracks(Tail(tracks))

\* helpers.get_nla_strips_in_timeframe: the authored segments that overlap
\* the window [frame_min, frame_max].
get_nla_strips_in_timeframe(tracks, frame_min, frame_max) ==
    LET Overlaps(strip) == strip.frame_start <= frame_max /\ strip.frame_end >= frame_min
    IN SelectSeq(StripsOfTracks(tracks), Overlaps)

\* min and max of two numbers, and of a field over a non-empty list.
Min2(a, b) == IF a <= b THEN a ELSE b
Max2(a, b) == IF a >= b THEN a ELSE b
MaxFrameEnd(strips) ==
    CHOOSE e \in {strips[i].frame_end : i \in 1..Len(strips)} :
        \A i \in 1..Len(strips) : strips[i].frame_end <= e
MinFrameStart(strips) ==
    CHOOSE b \in {strips[i].frame_start : i \in 1..Len(strips)} :
        \A i \in 1..Len(strips) : b <= strips[i].frame_start

\* Mutant of NextMarkerRange: the range is not tightened to the strips.
NextMarkerRange_NotTightened(marker_frame, next_frame, nla_strips) ==
    IF Len(nla_strips) > 0
    THEN <<marker_frame, next_frame>>
    ELSE <<marker_frame, marker_frame>>

\* The range of a marker that has a next marker (operators.py 150-159), before
\* the test of line 169.
NextMarkerRange(marker_frame, next_frame, nla_strips) ==
    IF Len(nla_strips) > 0
    THEN <<Max2(marker_frame, MinFrameStart(nla_strips)),
           Min2(next_frame, MaxFrameEnd(nla_strips))>>
    ELSE <<marker_frame, marker_frame>>

\* The loop of operators.py 163-167 from track track_index on.
RECURSIVE MaxStripEndFrom(_, _, _)
MaxStripEndFrom(frame_end, strips, i) ==
    IF i > Len(strips) THEN frame_end
    ELSE MaxStripEndFrom(Max2(frame_end, strips[i].frame_end), strips, i + 1)

\* Mutant of LastMarkerRange: the muted tracks are not skipped.
LastMarkerRange_CountsMuted(marker_frame, tracks) ==
    <<marker_frame, MaxStripEndFrom(0, StripsOfTracks(tracks), 1)>>

\* The range of the marker that has no next marker (operators.py 160-167),
\* before the test of line 169: frame_end starts at 0 and is raised to the end
\* of every strip of a track that is not muted.
LastMarkerRange(marker_frame, tracks) ==
    LET NotMuted(strip) == ~strip.mute
    IN <<marker_frame, MaxStripEndFrom(0, SelectSeq(StripsOfTracks(tracks), NotMuted), 1)>>

\* context.scene.timeline_markers[marker_name]: the first marker of that name.
MarkerNamed(markers, marker_name) ==
    markers[ListIndex([i \in 1..Len(markers) |-> markers[i].name], marker_name) + 1]

\* Mutant of SortedTimelineMarkers: the markers are taken in the order of the
\* list.
SortedTimelineMarkers_AsSupplied(markers) == markers

\* sorted_timeline_markers (operators.py 139): the timeline markers in
\* ascending order of frame; markers at the same frame keep their order.
SortedTimelineMarkers(markers) == SortedByFrame(markers)

\* The range the loop body of get_timeline_marker_sequence_frame_ranges
\* computes for a marker (operators.py 143-167).
MarkerFrameRange(markers, tracks, marker_name) ==
    LET marker == MarkerNamed(markers, marker_name)
        sorted_timeline_markers == SortedTimelineMarkers(markers)
        sorted_timeline_marker_names ==
            [i \in 1..Len(sorted_timeline_markers) |-> sorted_timeline_markers[i].name]
        marker_index == ListIndex(sorted_timeline_marker_names, marker_name)
        next_marker_index == marker_index + 1
    IN IF next_marker_index < Len(sorted_timeline_markers)
       THEN LET next_frame == sorted_timeline_markers[next_marker_index + 1].frame
            IN NextMarkerRange(marker.frame, next_frame,
                               get_nla_strips_in_timeframe(tracks, marker.frame, next_frame))
       ELSE LastMarkerRange(marker.frame, tracks)

\* Mutant of IsDropped: no marker is dropped.
IsDropped_Never(frame_range) == FALSE

\* The test of operators.py 169: a marker whose range starts after its end
\* gives no sequence.
IsDropped(frame_range) == frame_range[1] > frame_range[2]

\* get_timeline_marker_sequence_frame_ranges: the dict from the marker names
\* to their ranges, without the markers whose range has frame_start > frame_end.
get_timeline_marker_sequence_frame_ranges(markers, tracks, marker_names) ==
    LET kept == {n \in Range(marker_names) :
                    ~IsDropped(MarkerFrameRange(markers, tracks, n))}
    IN [n \in kept |-> MarkerFrameRange(markers, tracks, n)]

\* The items added to pg.marker_list for the markers i.. (operators.py 78-88).
RECURSIVE MarkerListItemsFrom(_, _, _)
MarkerListItemsFrom(i, marker_names, sequence_frame_ranges) ==
    IF i > Len(marker_names) THEN <<>>
    ELSE LET marker_name == marker_names[i]
         IN (IF marker_name \notin DOMAIN sequence_frame_ranges THEN <<>>
             ELSE IF StartsWithHash(marker_name) THEN <<>>
             ELSE << [name |-> marker_name,
                      is_selected |-> FALSE,
                      frame_start |-> sequence_frame_ranges[marker_name][1],
                      frame_end |-> sequence_frame_ranges[marker_name][2]] >>)
            \o MarkerListItemsFrom(i + 1, marker_names, sequence_frame_ranges)

\* The items of pg.action_list after update_actions_and_timeline_markers
\* (operators.py 34-68): none without animation data.
PopulatedActionList(animation_data) ==
    IF ~animation_data THEN <<>> ELSE ItemsOfActionsFrom(0, data_actions)

\* The items of pg.marker_list after update_actions_and_timeline_markers
\* (operators.py 34-43, 70-84): none without animation data.
PopulatedMarkerList(animation_data) ==
    IF ~animation_data THEN <<>>
    ELSE LET marker_names == [i \in 1..Len(timeline_markers) |-> timeline_markers[i].name]
             sequence_frame_ranges ==
                 get_timeline_marker_sequence_frame_ranges(timeline_markers, nla_tracks,
                                                           marker_names)
         IN MarkerListItemsFrom(1, marker_names, sequence_frame_ranges)

\* update_actions_and_timeline_markers: both lists are cleared and, when
\* there is animation data, populated again.
UpdateActionsAndTimelineMarkers ==
    /\ export_pc = "scene"
    /\ action_list' = PopulatedActionList(has_animation_data)
    /\ marker_list' = PopulatedMarkerList(has_animation_data)
    /\ export_pc' = "listed"
    /\ UNCHANGED <<data_actions, timeline_markers, nla_tracks, has_animation_data,
                   should_override_animation_data, animation_data_override>>
    /\ UNCHANGED <<import_vars, fps_vars, op_vars, psk_vars, convert_vars, matrix_vars, seq_vars, chunk_vars, codec_vars, cursor_vars, load_vars>>

\* get_animation_data_object (operators.py 112-125), on an active armature:
\* the armature, or pg.animation_data_override when
\* pg.should_override_animation_data is set.
get_animation_data_object ==
    IF should_override_animation_data THEN animation_data_override ELSE "armature"

\* PSA_OT_export.invoke (operators.py 331-353), on an active armature: the
\* armature gets animation data when it has none, the lists are populated
\* from the animation data object, and the operator is added to the file
\* selector.
PsaExportInvoke ==
    /\ export_pc = "scene"
    /\ has_animation_data' =
           (has_animation_data \/ get_animation_data_object = "armature")
    /\ action_list' = PopulatedActionList(has_animation_data')
    /\ marker_list' = PopulatedMarkerList(has_animation_data')
    /\ fileselect_added' = TRUE
    /\ export_pc' = "listed"
    /\ UNCHANGED <<data_actions, timeline_markers, nla_tracks,
                   should_override_animation_data, animation_data_override>>
    /\ UNCHANGED <<input_objects_found, mesh_objects, material_list>>
    /\ UNCHANGED <<import_vars, fps_vars, op_vars, convert_vars, matrix_vars, seq_vars, chunk_vars, codec_vars, cursor_vars, load_vars>>

\* get_item_list of the two selection operators (operators.py 428-435,
\* 459-466): the list that pg.sequence_source names, or None.
get_item_list ==
    IF sequence_source = "ACTIONS" THEN action_list
    ELSE IF sequence_source = "TIMELINE_MARKERS" THEN marker_list
    ELSE None

\* The results get_visible_sequences can have on an item list (operators.py
\* 440, 448, 477), as sets of positions.  It gives the items on which
\* filter_sequences of psa/export/properties.py has set the filter bit;
\* that file is outside the source, so any of the items may be visible.
VisibleItemSets(item_list) == SUBSET (1..Len(item_list))

\* The item list with is_selected set to the value on the visible items.
WithVisibleSelected(item_list, visible, value) ==
    [i \in 1..Len(item_list) |->
        IF i \in visible THEN [item_list[i] EXCEPT !.is_selected = value] ELSE item_list[i]]

\* The export dialog is open: the lists are populated and execute has not
\* started.
ExportDialogOpen ==
    /\ export_pc = "listed"
    /\ op_pc \in {"idle", "execute"}

\* PSA_OT_export_actions_select_all (operators.py 437-450): enabled by poll
\* when a visible item is not selected; execute selects the visible items.
ExportActionsSelectAll ==
    /\ ExportDialogOpen
    /\ sequence_source \in {"ACTIONS", "TIMELINE_MARKERS"}
    /\ \E visible \in VisibleItemSets(get_item_list) :
          /\ \E i \in visible : ~get_item_list[i].is_selected
          /\ IF sequence_source = "ACTIONS"
             THEN /\ action_list' = WithVisibleSelected(action_list, visible, TRUE)
                  /\ UNCHANGED marker_list
             ELSE /\ marker_list' = WithVisibleSelected(marker_list, visible, TRUE)
                  /\ UNCHANGED action_list
    /\ UNCHANGED <<data_actions, timeline_markers, nla_tracks, has_animation_data,
                   should_override_animation_data, animation_data_override, export_pc>>
    /\ UNCHANGED <<import_vars, fps_vars, op_vars, psk_vars, convert_vars, matrix_vars, seq_vars, chunk_vars, codec_vars, cursor_vars, load_vars>>

\* PSA_OT_export_actions_deselect_all (operators.py 468-479): enabled by
\* poll when an item of the list is selected; execute deselects the visible
\* items.
ExportActionsDeselectAll ==
    /\ ExportDialogOpen
    /\ sequence_source \in {"ACTIONS", "TIMELINE_MARKERS"}
    /\ \E i \in 1..Len(get_item_list) : get_item_list[i].is_selected
    /\ \E visible \in VisibleItemSets(get_item_list) :
          IF sequence_source = "ACTIONS"
          THEN /\ action_list' = WithVisibleSelected(action_list, visible, FALSE)
               /\ UNCHANGED marker_list
          ELSE /\ marker_list' = WithVisibleSelected(marker_list, visible, FALSE)
               /\ UNCHANGED action_list
    /\ UNCHANGED <<data_actions, timeline_markers, nla_tracks, has_animation_data,
                   should_override_animation_data, animation_data_override, export_pc>>
    /\ UNCHANGED <<import_vars, fps_vars, op_vars, psk_vars, convert_vars, matrix_vars, seq_vars, chunk_vars, codec_vars, cursor_vars, load_vars>>

\* The settings of the animation data object in the dialog: no override,
\* or the override set with no object, with the armature itself, or with
\* another object.
AnimationDataOverrideSet ==
    {<<FALSE, "None">>, <<TRUE, "None">>, <<TRUE, "armature">>, <<TRUE, "other">>}

\* The frame positions of the model.
Frames == 0..MaxFrame

\* The frame ranges of an action: frame_range[0] <= frame_range[1].
FrameRangeSet == {r \in Frames \X Frames : r[1] <= r[2]}

\* The f-curve lists of an action.
FCurvesSet == SeqsOf(FCurvePathSet, 0, MaxFCurves)

\* The pose marker lists of the model: one marker of any name, followed by
\* further markers named 'A'; every marker at any frame, in any order of
\* frames.
PoseMarkersSet ==
    {[i \in 1..Len(f) |-> [name |-> IF i = 1 THEN n ELSE <<65>>, frame |-> f[i]]] :
        n \in PoseMarkerNameSet, f \in SeqsOf(Frames, 1, MaxPoseMarkers)}

\* The actions of the model: an action of the armature of any name and range
\* without pose markers; an action named 'A', '#A' or 'A/AA' with any
\* f-curves; an action of the armature named 'A' or '#A' with pose markers.
ExportActionSet ==
    {[name |-> n, frame_range |-> r, pose_markers |-> <<>>, fcurves |-> <<ChRoot>>] :
        n \in ExportNameSet, r \in FrameRangeSet}
    \cup
    {[name |-> n, frame_range |-> <<0, MaxFrame>>, pose_markers |-> <<>>, fcurves |-> c] :
        n \in {<<65>>, <<ChHash, 65>>, <<65, ChSlash, 65, 65>>}, c \in FCurvesSet}
    \cup
    {[name |-> n, frame_range |-> <<0, e>>, pose_markers |-> p, fcurves |-> <<ChRoot>>] :
        n \in {<<65>>, <<ChHash, 65>>}, e \in Frames, p \in PoseMarkersSet}

\* A scene with one action and no timeline markers; the object that gives
\* the animation data may have none.
ExportActionsInit ==
    /\ data_actions \in {<<a>> : a \in ExportActionSet}
    /\ timeline_markers = <<>>
    /\ nla_tracks = <<>>
    /\ has_animation_data \in BOOLEAN
    /\ (~has_animation_data => data_actions[1].pose_markers = <<>>)
    /\ \E override \in AnimationDataOverrideSet :
          /\ should_override_animation_data = override[1]
          /\ animation_data_override = override[2]
    /\ (get_animation_data_object = "None" => ~has_animation_data)
    /\ action_list = <<>>
    /\ marker_list = <<>>
    /\ export_pc = "scene"
    /\ ImportAtRest
    /\ FpsAtRest
    /\ OpIdle
    /\ sequence_source = "ACTIONS"
    /\ PskAtRest
    /\ ConvertAtRest
    /\ MatrixAtRest
    /\ SequencesAtRest
    /\ ChunkAtRest
    /\ CodecAtRest
    /\ CursorAtRest
    /\ LoadAtRest

\* The strips of the model: frame_start < frame_end.
StripSet == {s \in [frame_start : Frames, frame_end : Frames] : s.frame_start < s.frame_end}

\* The strips of one track of the model: none, or one.
TrackStripsSet == {<<>>} \cup {<<s>> : s \in StripSet}

\* The NLA tracks of the model.
TrackSet == {[mute |-> m, strips |-> s] : m \in BOOLEAN, s \in TrackStripsSet}

\* The timeline marker lists of the model: markers of different names, at
\* any frames, in any order.
TimelineMarkersSet ==
    UNION {{[i \in 1..Len(n) |-> [name |-> n[i], frame |-> f[i]]] :
               f \in [1..Len(n) -> Frames]} :
           n \in DistinctSeqsOf(MarkerNameSet, 0, Cardinality(MarkerNameSet))}

\* A scene with timeline markers and no action; its animation data, when
\* there is one, has two NLA tracks.  The animation data object is the
\* armature or another object.
ExportMarkersInit ==
    /\ data_actions = <<>>
    /\ timeline_markers \in TimelineMarkersSet
    /\ has_animation_data \in BOOLEAN
    /\ nla_tracks \in IF has_animation_data THEN {<<t, u>> : t \in TrackSet, u \in TrackSet}
                                            ELSE {<<>>}
    /\ \E override \in {<<FALSE, "None">>, <<TRUE, "other">>} :
          /\ should_override_animation_data = override[1]
          /\ animation_data_override = override[2]
    /\ (get_animation_data_object = "None" => ~has_animation_data)
    /\ action_list = <<>>
    /\ marker_list = <<>>
    /\ export_pc = "scene"
    /\ ImportAtRest
    /\ FpsAtRest
    /\ OpIdle
    /\ sequence_source = "TIMELINE_MARKERS"
    /\ PskAtRest
    /\ ConvertAtRest
    /\ MatrixAtRest
    /\ SequencesAtRest
    /\ ChunkAtRest
    /\ CodecAtRest
    /\ CursorAtRest
    /\ LoadAtRest

\* The timeline markers of the worked example: three markers named 'M', 'N'
\* and 'O', each at frame 0, 30 or 60, in any order of frames.
ExampleMarkerNames == << <<77>>, <<78>>, <<79>> >>
ExampleMarkerFrames == {0, 30, 60}
ExampleMarkersSet ==
    {[i \in 1..Len(ExampleMarkerNames) |-> [name |-> ExampleMarkerNames[i], frame |-> f[i]]] :
        f \in [1..Len(ExampleMarkerNames) -> ExampleMarkerFrames]}

\* The NLA tracks of the worked example: a track has no strip or one strip
\* between two of the frames 0, 15, 30, 45, 60, 90.
ExampleStripFrames == {0, 15, 30, 45, 60, 90}
ExampleStripSet ==
    {s \in [frame_start : ExampleStripFrames, frame_end : ExampleStripFrames] :
        s.frame_start < s.frame_end}
ExampleTrackSet ==
    {[mute |-> m, strips |-> s] :
        m \in BOOLEAN, s \in {<<>>} \cup {<<x>> : x \in ExampleStripSet}}

\* A scene with the three timeline markers of the worked example and two NLA
\* tracks.
ExportExampleInit ==
    /\ data_actions = <<>>
    /\ timeline_markers \in ExampleMarkersSet
    /\ has_animation_data = TRUE
    /\ nla_tracks \in {<<t, u>> : t \in ExampleTrackSet, u \in ExampleTrackSet}
    /\ should_override_animation_data = FALSE
    /\ animation_data_override = "None"
    /\ action_list = <<>>
    /\ marker_list = <<>>
    /\ export_pc = "scene"
    /\ ImportAtRest
    /\ FpsAtRest
    /\ OpIdle
    /\ sequence_source = "TIMELINE_MARKERS"
    /\ PskAtRest
    /\ ConvertAtRest
    /\ MatrixAtRest
    /\ SequencesAtRest
    /\ ChunkAtRest
    /\ CodecAtRest
    /\ CursorAtRest
    /\ LoadAtRest

\* The actions of a scene that also has timeline markers: an action of the
\* armature named 'A', '#A' or 'A/#A' over the frames 0..MaxFrame, with up to
\* two pose markers named 'A', '#A' or 'A/#A', the first at frame 0 and the
\* second at frame 1.
SceneNameSet == {<<65>>, <<ChHash, 65>>, <<65, ChSlash, ChHash, 65>>}
ScenePoseMarkersSet ==
    {[i \in 1..Len(n) |-> [name |-> n[i], frame |-> i - 1]] : n \in SeqsOf(SceneNameSet, 0, 2)}
SceneActionSet ==
    {[name |-> n, frame_range |-> <<0, MaxFrame>>, pose_markers |-> p, fcurves |-> <<ChRoot>>] :
        n \in SceneNameSet, p \in ScenePoseMarkersSet}

\* The NLA tracks of such a scene: one track that is not muted, without a
\* strip or with one strip over the frames 0..MaxFrame.
SceneTrackSet ==
    {[mute |-> FALSE, strips |-> <<>>],
     [mute |-> FALSE, strips |-> << [frame_start |-> 0, frame_end |-> MaxFrame] >>]}

\* A scene with one action, timeline markers and one NLA track.
ExportSceneInit ==
    /\ data_actions \in {<<a>> : a \in SceneActionSet}
    /\ timeline_markers \in TimelineMarkersSet
    /\ has_animation_data = TRUE
    /\ nla_tracks \in {<<t>> : t \in SceneTrackSet}
    /\ should_override_animation_data = FALSE
    /\ animation_data_override = "None"
    /\ action_list = <<>>
    /\ marker_list = <<>>
    /\ export_pc = "scene"
    /\ ImportAtRest
    /\ FpsAtRest
    /\ OpIdle
    /\ sequence_source = "ACTIONS"
    /\ PskAtRest
    /\ ConvertAtRest
    /\ MatrixAtRest
    /\ SequencesAtRest
    /\ ChunkAtRest
    /\ CodecAtRest
    /\ CursorAtRest
    /\ LoadAtRest

ExportNext ==
    \/ UpdateActionsAndTimelineMarkers
    \/ PsaExportInvoke

SpecExportActions == ExportActionsInit /\ [][ExportNext]_vars

SpecExportMarkers == ExportMarkersInit /\ [][ExportNext]_vars

SpecExportExample == ExportExampleInit /\ [][ExportNext]_vars

SpecExportScene == ExportSceneInit /\ [][ExportNext]_vars

-----------------------------------------------------------------------------
(* psa/export/operators.py: get_sequence_fps *)

\* The frame rates of the model.
FpsSet == 1..MaxFps

\* An action without the key 'psa_sequence_fps'.
NoFpsProperty == [type |-> "absent", value |-> 0]

\* What an action holds under the key 'psa_sequence_fps': a value with its
\* Python type, when it has the key.  A bool is 1 or 0.
FpsPropertySet ==
    {NoFpsProperty}
        \cup [type : {"int", "float"}, value : FpsSet]
        \cup {[type |-> "str", value |-> 1], [type |-> "bool", value |-> 1]}

\* The values fps_source may take: the three items of the enum, and a value
\* that is none of them.
FpsSourceSet == {"SCENE", "CUSTOM", "ACTION_METADATA", "INVALID"}

\* type(fps) == int or type(fps) == float
IsIntOrFloat(fps) == fps.type = "int" \/ fps.type = "float"

\* fps_list (operators.py 98-102): the values of the actions that have the
\* key and hold an int or a float under it, in the order of the actions.
RECURSIVE FpsListFrom(_, _)
FpsListFrom(i, action_properties) ==
    IF i > Len(action_properties) THEN <<>>
    ELSE (IF action_properties[i] # NoFpsProperty /\ IsIntOrFloat(action_properties[i])
          THEN <<action_properties[i].value>>
          ELSE <<>>)
         \o FpsListFrom(i + 1, action_properties)

\* Mutant of MinOfList: the greatest value of the list.
MinOfList_Max(list) ==
    CHOOSE x \in Range(list) : \A y \in Range(list) : y <= x

\* min(fps_list), for a list that is not empty.
MinOfList(list) ==
    CHOOSE x \in Range(list) : \A y \in Range(list) : x <= y

\* get_sequence_fps: the value returned, or the RuntimeError of line 109.
get_sequence_fps(render_fps, source, custom, action_properties) ==
    LET Return(fps) == [raised |-> FALSE, value |-> fps]
    IN IF source = "SCENE" THEN Return(render_fps)
       ELSE IF source = "CUSTOM" THEN Return(custom)
       ELSE IF source = "ACTION_METADATA"
            THEN LET fps_list == FpsListFrom(1, action_properties)
                 IN IF Len(fps_list) > 0 THEN Return(MinOfList(fps_list))
                    ELSE Return(render_fps)
       ELSE [raised |-> TRUE, value |-> None]

\* A call of get_sequence_fps with any source, rates and actions.
SequenceFpsInit ==
    /\ fps_source \in FpsSourceSet
    /\ fps_custom \in FpsSet
    /\ scene_fps \in FpsSet
    /\ fps_actions \in SeqsOf(FpsPropertySet, 0, MaxFpsActions)
    /\ fps_result = None
    /\ fps_pc = "call"
    /\ ImportAtRest
    /\ ExportAtRest
    /\ OpAtRest
    /\ PskAtRest
    /\ ConvertAtRest
    /\ MatrixAtRest
    /\ SequencesAtRest
    /\ ChunkAtRest
    /\ CodecAtRest
    /\ CursorAtRest
    /\ LoadAtRest

\* The call returns a rate.
GetSequenceFpsReturns ==
    /\ fps_pc = "call"
    /\ ~get_sequence_fps(scene_fps, fps_source, fps_custom, fps_actions).raised
    /\ fps_result' = get_sequence_fps(scene_fps, fps_source, fps_custom, fps_actions).value
    /\ fps_pc' = "returned"
    /\ UNCHANGED <<fps_source, fps_custom, scene_fps, fps_actions>>
    /\ UNCHANGED <<import_vars, export_vars, op_vars, psk_vars, convert_vars, matrix_vars, seq_vars, chunk_vars, codec_vars, cursor_vars, load_vars>>

\* The call raises RuntimeError: fps_source is none of the three items.
GetSequenceFpsRaises ==
    /\ fps_pc = "call"
    /\ get_sequence_fps(scene_fps, fps_source, fps_custom, fps_actions).raised
    /\ fps_pc' = "raised"
    /\ UNCHANGED <<fps_source, fps_custom, scene_fps, fps_actions, fps_result>>
    /\ UNCHANGED <<import_vars, export_vars, op_vars, psk_vars, convert_vars, matrix_vars, seq_vars, chunk_vars, codec_vars, cursor_vars, load_vars>>

SequenceFpsNext == GetSequenceFpsReturns \/ GetSequenceFpsRaises

SpecSequenceFps == SequenceFpsInit /\ [][SequenceFpsNext]_vars

-----------------------------------------------------------------------------
(* The execute methods: PSA_OT_export (psa/export/operators.py),           *)
(* PSA_OT_import (psa/import_/operators.py), PSK_OT_export                 *)
(* (psk/export/operators.py).  build_psa, build_psk, write_psa and         *)
(* write_psk are calls out of these files: a build returns a document or   *)
(* raises RuntimeError, a write creates the file or fails with OSError.    *)

\* The elements of a finite set of numbers as a list, in ascending order.
RECURSIVE SeqOfSet(_)
SeqOfSet(S) ==
    IF S = {} THEN <<>>
    ELSE LET x == CHOOSE y \in S : \A z \in S : y <= z
         IN <<x>> \o SeqOfSet(S \ {x})

\* set(map(lambda x: x.action, get_nla_strips_in_timeframe(...))): the
\* actions of the strips in the timeframe.
NlaStripsActions(tracks, frame_min, frame_max) ==
    UNION {{tracks[t].strips[k].action :
               k \in {j \in 1..Len(tracks[t].strips) :
                         Len(get_nla_strips_in_timeframe(
                                 << [mute |-> tracks[t].mute,
                                     strips |-> <<tracks[t].strips[j]>>] >>,
                                 frame_min, frame_max)) > 0}} :
           t \in 1..Len(tracks)}

\* The 'psa_sequence_fps' properties of a list of actions of bpy.data.actions.
FpsPropertiesOf(all_actions, action_indices) ==
    [i \in 1..Len(action_indices) |-> all_actions[action_indices[i] + 1].psa_sequence_fps]

\* The build sequences of the action items i.. (operators.py 372-384): one
\* for every selected item whose action has f-curves.
RECURSIVE ActionBuildSequencesFrom(_, _, _, _, _, _)
ActionBuildSequencesFrom(i, items, all_actions, render_fps, source, custom) ==
    IF i > Len(items) THEN <<>>
    ELSE (IF ~items[i].is_selected THEN <<>>
          ELSE IF Len(all_actions[items[i].action + 1].fcurves) = 0 THEN <<>>
          ELSE << [name |-> items[i].name,
                   action |-> items[i].action,
                   frame_start |-> items[i].frame_start,
                   frame_end |-> items[i].frame_end,
                   fps |-> get_sequence_fps(render_fps, source, custom,
                                            FpsPropertiesOf(all_actions,
                                                            <<items[i].action>>)).value] >>)
         \o ActionBuildSequencesFrom(i + 1, items, all_actions, render_fps, source, custom)

\* The build sequences of the marker items i.. (operators.py 385-396): one
\* for every item of the marker list.
RECURSIVE MarkerBuildSequencesFrom(_, _, _, _, _, _, _)
MarkerBuildSequencesFrom(i, items, tracks, all_actions, render_fps, source, custom) ==
    IF i > Len(items) THEN <<>>
    ELSE << [name |-> items[i].name,
             action |-> None,
             frame_start |-> items[i].frame_start,
             frame_end |-> items[i].frame_end,
             fps |-> get_sequence_fps(
                         render_fps, source, custom,
                         FpsPropertiesOf(all_actions,
                                         SeqOfSet(NlaStripsActions(tracks,
                                                                   items[i].frame_start,
                                                                   items[i].frame_end)))).value] >>
         \o MarkerBuildSequencesFrom(i + 1, items, tracks, all_actions, render_fps, source,
                                     custom)

\* A call of get_sequence_fps in the loops of operators.py 372-396 raises:
\* the FPS source is not one it knows, and there is a selected action item
\* whose action has f-curves (381) or an item of the marker list (395).
SequenceFpsRaises ==
    /\ get_sequence_fps(scene_fps, fps_source, fps_custom, <<>>).raised
    /\ \/ /\ sequence_source = "ACTIONS"
          /\ \E i \in 1..Len(action_list) :
                /\ action_list[i].is_selected
                /\ Len(data_actions[action_list[i].action + 1].fcurves) > 0
       \/ /\ sequence_source = "TIMELINE_MARKERS"
          /\ Len(marker_list) > 0

\* PSA_OT_export.execute up to the call of build_psa (operators.py 355-408):
\* the tests of the lists, the animation data of the animation data object
\* (None has no attribute animation_data), then the build sequences with
\* their rates.  An exception raised here leaves execute.
PsaExportExecute ==
    /\ operator = "PSA_OT_export"
    /\ op_pc = "execute"
    /\ IF sequence_source = "ACTIONS" /\ Len(action_list) = 0
       THEN /\ op_result' = "RuntimeError"
            /\ op_pc' = "done"
            /\ UNCHANGED export_sequences
       ELSE IF sequence_source = "TIMELINE_MARKERS" /\ Len(marker_list) = 0
       THEN /\ op_result' = "RuntimeError"
            /\ op_pc' = "done"
            /\ UNCHANGED export_sequences
       ELSE IF get_animation_data_object = "None"
       THEN /\ op_result' = "AttributeError"
            /\ op_pc' = "done"
            /\ UNCHANGED export_sequences
       ELSE IF ~has_animation_data
       THEN /\ op_result' = "RuntimeError"
            /\ op_pc' = "done"
            /\ UNCHANGED export_sequences
       ELSE IF SequenceFpsRaises
       THEN /\ op_result' = "RuntimeError"
            /\ op_pc' = "done"
            /\ UNCHANGED export_sequences
       ELSE IF sequence_source = "ACTIONS"
       THEN /\ export_sequences' =
                   ActionBuildSequencesFrom(1, action_list, data_actions, scene_fps,
                                            fps_source, fps_custom)
            /\ op_pc' = "build"
            /\ UNCHANGED op_result
       ELSE IF sequence_source = "TIMELINE_MARKERS"
       THEN /\ export_sequences' =
                   MarkerBuildSequencesFrom(1, marker_list, nla_tracks, data_actions,
                                            scene_fps, fps_source, fps_custom)
            /\ op_pc' = "build"
            /\ UNCHANGED op_result
       ELSE /\ op_result' = "ValueError"
            /\ op_pc' = "done"
            /\ UNCHANGED export_sequences
    /\ UNCHANGED document
    /\ UNCHANGED <<operator, reports, sequence_source, sequence_list, builder_called,
                   importer_called, writer_called>>
    /\ UNCHANGED <<import_vars, export_vars, fps_vars, psk_vars, convert_vars, matrix_vars, seq_vars, chunk_vars, codec_vars, cursor_vars, load_vars>>

\* build_psa returns the document; execute reports the success
\* (operators.py 410-412).
PsaExportBuildReturns ==
    /\ operator = "PSA_OT_export"
    /\ op_pc = "build"
    /\ builder_called' = TRUE
    /\ document' = "built"
    /\ reports' = Append(reports, "INFO")
    /\ op_pc' = "write"
    /\ UNCHANGED <<operator, op_result, sequence_source, export_sequences, sequence_list,
                   importer_called, writer_called>>
    /\ UNCHANGED <<import_vars, export_vars, fps_vars, psk_vars, convert_vars, matrix_vars, seq_vars, chunk_vars, codec_vars, cursor_vars, load_vars>>

\* Mutant of PsaExportBuildRaises: the error is reported and execute goes on
\* to the write.
PsaExportBuildRaises_GoesOn ==
    /\ operator = "PSA_OT_export"
    /\ op_pc = "build"
    /\ builder_called' = TRUE
    /\ reports' = Append(reports, "ERROR_INVALID_CONTEXT")
    /\ op_pc' = "write"
    /\ UNCHANGED <<operator, op_result, document, sequence_source, export_sequences,
                   sequence_list, importer_called, writer_called>>
    /\ UNCHANGED <<import_vars, export_vars, fps_vars, psk_vars, convert_vars, matrix_vars, seq_vars, chunk_vars, codec_vars, cursor_vars, load_vars>>

\* build_psa raises RuntimeError; execute reports it and returns CANCELLED
\* (operators.py 413-415).
PsaExportBuildRaises ==
    /\ operator = "PSA_OT_export"
    /\ op_pc = "build"
    /\ builder_called' = TRUE
    /\ reports' = Append(reports, "ERROR_INVALID_CONTEXT")
    /\ op_result' = "CANCELLED"
    /\ op_pc' = "done"
    /\ UNCHANGED document
    /\ UNCHANGED <<operator, sequence_source, export_sequences, sequence_list,
                   importer_called, writer_called>>
    /\ UNCHANGED <<import_vars, export_vars, fps_vars, psk_vars, convert_vars, matrix_vars, seq_vars, chunk_vars, codec_vars, cursor_vars, load_vars>>

\* write_psa is called; execute returns FINISHED, or the error of the write
\* leaves execute (operators.py 417-419).
PsaExportWrite ==
    /\ operator = "PSA_OT_export"
    /\ op_pc = "write"
    /\ writer_called' = TRUE
    /\ op_result' \in {"FINISHED", "OSError"}
    /\ op_pc' = "done"
    /\ UNCHANGED document
    /\ UNCHANGED <<operator, reports, sequence_source, export_sequences, sequence_list,
                   builder_called, importer_called>>
    /\ UNCHANGED <<import_vars, export_vars, fps_vars, psk_vars, convert_vars, matrix_vars, seq_vars, chunk_vars, codec_vars, cursor_vars, load_vars>>

\* sequence_names (import_/operators.py 157): the names of the selected
\* items of the sequence list, in list order.
SelectedSequenceNames(items) ==
    LET selected == SelectSeq(items, LAMBDA x : x.is_selected)
    IN [i \in 1..Len(selected) |-> selected[i].action_name]

\* PSA_OT_import.execute up to the call of import_psa (import_/operators.py
\* 154-173).  PsaReader(self.filepath) is called first, outside any try: when
\* it raises, the exception leaves execute.  When it returns: without a
\* selected sequence execute reports the error and returns CANCELLED, else
\* import_psa starts with the selected names.
PsaImportExecute ==
    /\ operator = "PSA_OT_import"
    /\ op_pc = "execute"
    /\ \/ /\ op_result' = "OSError"
          /\ op_pc' = "done"
          /\ UNCHANGED <<reports, importer_called, sequence_names, pc>>
       \/ LET names == SelectedSequenceNames(sequence_list)
          IN IF Len(names) = 0
             THEN /\ reports' = Append(reports, "ERROR_INVALID_CONTEXT")
                  /\ op_result' = "CANCELLED"
                  /\ op_pc' = "done"
                  /\ UNCHANGED <<importer_called, sequence_names, pc>>
             ELSE /\ importer_called' = TRUE
                  /\ sequence_names' = names
                  /\ pc' = "map_bones"
                  /\ op_pc' = "import"
                  /\ UNCHANGED <<reports, op_result>>
    /\ UNCHANGED document
    /\ UNCHANGED <<operator, sequence_source, export_sequences, sequence_list,
                   builder_called, writer_called>>
    /\ UNCHANGED <<psa_bones, armature_bone_names, bone_mapping_mode, psa_bone_index,
                   psa_to_armature_bone_indices, armature_to_psa_bone_indices,
                   psa_bone_names, duplicate_mappings, warnings, import_bones,
                   sequence_index, actions, returned>>
    /\ UNCHANGED <<export_vars, fps_vars, psk_vars, convert_vars, matrix_vars, seq_vars, chunk_vars, codec_vars, cursor_vars, load_vars>>

\* import_psa has returned: execute reports the result and returns FINISHED
\* (import_/operators.py 175-184).
PsaImportFinish ==
    /\ operator = "PSA_OT_import"
    /\ op_pc = "import"
    /\ pc = "done"
    /\ reports' =
           IF Len(warnings) > 0
           THEN reports \o <<"WARNING">> \o [i \in 1..Len(warnings) |-> "WARNING"]
           ELSE Append(reports, "INFO")
    /\ op_result' = "FINISHED"
    /\ op_pc' = "done"
    /\ UNCHANGED document
    /\ UNCHANGED <<operator, sequence_source, export_sequences, sequence_list,
                   builder_called, importer_called, writer_called>>
    /\ UNCHANGED <<import_vars, export_vars, fps_vars, psk_vars, convert_vars, matrix_vars, seq_vars, chunk_vars, codec_vars, cursor_vars, load_vars>>

\* import_psa has raised: the exception leaves execute.
PsaImportRaises ==
    /\ operator = "PSA_OT_import"
    /\ op_pc = "import"
    /\ pc = "raised"
    /\ op_result' = "ValueError"
    /\ op_pc' = "done"
    /\ UNCHANGED document
    /\ UNCHANGED <<operator, reports, sequence_source, export_sequences, sequence_list,
                   builder_called, importer_called, writer_called>>
    /\ UNCHANGED <<import_vars, export_vars, fps_vars, psk_vars, convert_vars, matrix_vars, seq_vars, chunk_vars, codec_vars, cursor_vars, load_vars>>

\* PSK_OT_export.execute: the options, then build_psk returns the document
\* (psk/export/operators.py 156-166).
PskExportBuildReturns ==
    /\ operator = "PSK_OT_export"
    /\ op_pc = "execute"
    /\ builder_called' = TRUE
    /\ document' = "built"
    /\ op_pc' = "write"
    /\ UNCHANGED <<operator, op_result, reports, sequence_source, export_sequences,
                   sequence_list, importer_called, writer_called>>
    /\ UNCHANGED <<import_vars, export_vars, fps_vars, psk_vars, convert_vars, matrix_vars, seq_vars, chunk_vars, codec_vars, cursor_vars, load_vars>>

\* build_psk raises RuntimeError: execute reports it and returns CANCELLED
\* (psk/export/operators.py 165-171).
PskExportBuildRaises ==
    /\ operator = "PSK_OT_export"
    /\ op_pc = "execute"
    /\ builder_called' = TRUE
    /\ reports' = Append(reports, "ERROR_INVALID_CONTEXT")
    /\ op_result' = "CANCELLED"
    /\ op_pc' = "done"
    /\ UNCHANGED document
    /\ UNCHANGED <<operator, sequence_source, export_sequences, sequence_list,
                   importer_called, writer_called>>
    /\ UNCHANGED <<import_vars, export_vars, fps_vars, psk_vars, convert_vars, matrix_vars, seq_vars, chunk_vars, codec_vars, cursor_vars, load_vars>>

\* write_psk is called, inside the try (psk/export/operators.py 165-172):
\* execute reports the success and returns FINISHED; or write_psk raises
\* RuntimeError, which execute reports before it returns CANCELLED; or
\* another error of the write leaves execute.
PskExportWrite ==
    /\ operator = "PSK_OT_export"
    /\ op_pc = "write"
    /\ writer_called' = TRUE
    /\ \/ /\ reports' = Append(reports, "INFO")
          /\ op_result' = "FINISHED"
       \/ /\ reports' = Append(reports, "ERROR_INVALID_CONTEXT")
          /\ op_result' = "CANCELLED"
       \/ /\ op_result' = "OSError"
          /\ UNCHANGED reports
    /\ op_pc' = "done"
    /\ UNCHANGED document
    /\ UNCHANGED <<operator, sequence_source, export_sequences, sequence_list,
                   builder_called, importer_called>>
    /\ UNCHANGED <<import_vars, export_vars, fps_vars, psk_vars, convert_vars, matrix_vars, seq_vars, chunk_vars, codec_vars, cursor_vars, load_vars>>

\* The items of pg.action_list the user may have selected or not: the
\* action of the scene over the frames 0..MaxFrame, listed under 'A' or 'B'.
SelectableActionItemSet ==
    {[action |-> 0, name |-> n, is_selected |-> b, is_pose_marker |-> FALSE,
      frame_start |-> 0, frame_end |-> MaxFrame] : n \in {<<65>>, <<66>>}, b \in BOOLEAN}

\* The items of pg.marker_list the user may have selected or not.
SelectableMarkerItemSet ==
    {[name |-> <<77>>, is_selected |-> b, frame_start |-> 0, frame_end |-> e] :
        b \in BOOLEAN, e \in {0, MaxFrame}}

\* The items of pg.sequence_list of the import: sequence i is named 'S<i>'.
SequenceListSet ==
    UNION {[1..n -> BOOLEAN] : n \in 0..MaxSequences}

\* PSA_OT_export.execute starts: the dialog has listed the sequences of one
\* action with the metadata rate 1, stashed on an NLA track, and the user
\* has selected some of the items.
PsaExportInit ==
    /\ operator = "PSA_OT_export"
    /\ sequence_source \in {"ACTIONS", "TIMELINE_MARKERS", "UNHANDLED"}
    /\ data_actions = << [name |-> <<65>>, frame_range |-> <<0, MaxFrame>>,
                          pose_markers |-> <<>>, fcurves |-> <<ChRoot>>,
                          psa_sequence_fps |-> [type |-> "int", value |-> 1]] >>
    /\ timeline_markers = <<>>
    /\ should_override_animation_data \in BOOLEAN
    /\ animation_data_override = "None"
    /\ has_animation_data \in BOOLEAN
    /\ (get_animation_data_object = "None" => ~has_animation_data)
    /\ nla_tracks = << [mute |-> TRUE,
                        strips |-> << [frame_start |-> 0, frame_end |-> MaxFrame,
                                       action |-> 0] >>] >>
    /\ action_list \in SeqsOf(SelectableActionItemSet, 0, MaxSequences)
    /\ marker_list \in SeqsOf(SelectableMarkerItemSet, 0, 1)
    /\ export_pc = "listed"
    /\ fps_source \in FpsSourceSet
    /\ fps_custom = 1
    /\ scene_fps = MaxFps
    /\ fps_actions = <<>>
    /\ fps_result = None
    /\ fps_pc = "idle"
    /\ sequence_list = <<>>
    /\ ImportAtRest
    /\ import_options = <<>>

\* PSA_OT_import.execute starts: the file has one bone and up to
\* MaxSequences sequences, of which the user has selected some.
PsaImportInit ==
    /\ operator = "PSA_OT_import"
    /\ sequence_list \in {[i \in 1..Len(b) |-> [action_name |-> <<83, 48 + i>>,
                                                  is_selected |-> b[i]]] :
                             b \in SequenceListSet}
    /\ pc = "idle"
    /\ psa_bones = <<ChHead>>
    /\ armature_bone_names \in {<<ChHead>>, <<ChHeadLower>>}
    /\ bone_mapping_mode \in {"EXACT", "CASE_INSENSITIVE"}
    /\ sequence_names = <<>>
    /\ psa_bone_index = 0
    /\ psa_to_armature_bone_indices = EmptyDict
    /\ armature_to_psa_bone_indices = EmptyDict
    /\ psa_bone_names = <<>>
    /\ duplicate_mappings = <<>>
    /\ warnings = <<>>
    /\ import_bones = <<>>
    /\ sequence_index = 0
    /\ actions = <<>>
    /\ returned = FALSE
    /\ sequence_source = "ACTIONS"
    /\ ExportAtRest
    /\ FpsAtRest
    /\ import_options \in ImportPsaOptionsSet

\* PSK_OT_export.execute starts.
PskExportInit ==
    /\ operator = "PSK_OT_export"
    /\ sequence_source = "ACTIONS"
    /\ sequence_list = <<>>
    /\ ImportAtRest
    /\ ExportAtRest
    /\ FpsAtRest
    /\ import_options = <<>>

\* One of the three operators starts to execute.
OperatorsInit ==
    /\ op_pc = "execute"
    /\ op_result = "none"
    /\ reports = <<>>
    /\ export_sequences = <<>>
    /\ builder_called = FALSE
    /\ document = "none"
    /\ importer_called = FALSE
    /\ writer_called = FALSE
    /\ bpy_actions = <<>>
    /\ previous_actions = <<>>
    /\ requested_sequences = <<>>
    /\ seq_index = 0
    /\ seq_action = 0
    /\ sequence_actions = <<>>
    /\ seq_pc = "idle"
    /\ PskAtRest
    /\ ConvertAtRest
    /\ MatrixAtRest
    /\ ChunkAtRest
    /\ CodecAtRest
    /\ CursorAtRest
    /\ LoadAtRest
    /\ (PsaExportInit \/ PsaImportInit \/ PskExportInit)

OperatorsNext ==
    \/ ExportActionsSelectAll
    \/ ExportActionsDeselectAll
    \/ PsaExportExecute
    \/ PsaExportBuildReturns
    \/ PsaExportBuildRaises
    \/ PsaExportWrite
    \/ PsaImportExecute
    \/ MapBone
    \/ ReportAndBuildImportBones
    \/ ImportSequence
    \/ ReturnResult
    \/ PsaImportFinish
    \/ PsaImportRaises
    \/ PskExportBuildReturns
    \/ PskExportBuildRaises
    \/ PskExportWrite

SpecOperators == OperatorsInit /\ [][OperatorsNext]_vars

-----------------------------------------------------------------------------
(* psk/export/operators.py: populate_material_list, PSK_OT_export.invoke *)

\* An empty material slot: mesh_object.data.materials[i] is None.
EmptySlot == [is_none |-> TRUE, name |-> <<>>]

\* The material slots of the model: empty, or the material 'a' or 'b'.
MaterialSlotSet ==
    {EmptySlot} \cup {[is_none |-> FALSE, name |-> n] : n \in {<<97>>, <<98>>}}

\* The mesh objects of the model, each as the list of its material slots.
MeshObjectsSet ==
    SeqsOf(SeqsOf(MaterialSlotSet, 0, MaxMaterialSlots), 0, MaxMeshObjects)

\* Mutant of AddMaterialName: the name is appended also when it is in the list.
AddMaterialName_Always(material_names, name) == Append(material_names, name)

\* if material.name not in material_names: material_names.append(material.name)
AddMaterialName(material_names, name) ==
    IF name \notin Range(material_names) THEN Append(material_names, name)
    ELSE material_names

\* The loop over the slots i.. of one mesh object (operators.py 25-30): the
\* names collected, or the RuntimeError of the first empty slot.
RECURSIVE ScanMaterialSlots(_, _, _)
ScanMaterialSlots(materials, i, material_names) ==
    IF i > Len(materials) THEN [raised |-> FALSE, material_names |-> material_names]
    ELSE IF materials[i].is_none THEN [raised |-> TRUE, material_names |-> material_names]
    ELSE ScanMaterialSlots(materials, i + 1, AddMaterialName(material_names, materials[i].name))

\* The loop over the mesh objects k.. (operators.py 24-30).
RECURSIVE ScanMeshObjects(_, _, _)
ScanMeshObjects(objects, k, material_names) ==
    IF k > Len(objects) THEN [raised |-> FALSE, material_names |-> material_names]
    ELSE LET scanned == ScanMaterialSlots(objects[k], 1, material_names)
         IN IF scanned.raised THEN scanned
            ELSE ScanMeshObjects(objects, k + 1, scanned.material_names)

\* populate_material_list: whether it raises, and the material list it
\* leaves.  The list is cleared before the slots are looked at.
populate_material_list(objects) ==
    LET scanned == ScanMeshObjects(objects, 1, <<>>)
    IN IF scanned.raised
       THEN [raised |-> TRUE, material_list |-> <<>>]
       ELSE [raised |-> FALSE,
             material_list |->
                 [i \in 1..Len(scanned.material_names) |->
                     [material_name |-> scanned.material_names[i], index |-> i - 1]]]

\* PSK_OT_export.invoke is called: the material list holds what an earlier
\* invoke left.
PskInvokeInit ==
    /\ operator = "PSK_OT_export"
    /\ op_pc = "invoke"
    /\ op_result = "none"
    /\ reports = <<>>
    /\ sequence_source = "ACTIONS"
    /\ export_sequences = <<>>
    /\ sequence_list = <<>>
    /\ builder_called = FALSE
    /\ document = "none"
    /\ importer_called = FALSE
    /\ writer_called = FALSE
    /\ input_objects_found \in BOOLEAN
    /\ mesh_objects \in MeshObjectsSet
    /\ (~input_objects_found => mesh_objects = <<>>)
    /\ material_list = << [material_name |-> <<97>>, index |-> 0] >>
    /\ fileselect_added = FALSE
    /\ ImportAtRest
    /\ ExportAtRest
    /\ FpsAtRest
    /\ ConvertAtRest
    /\ MatrixAtRest
    /\ SequencesAtRest
    /\ ChunkAtRest
    /\ CodecAtRest
    /\ CursorAtRest
    /\ LoadAtRest

\* PSK_OT_export.invoke (operators.py 88-108).
PskExportInvoke ==
    /\ operator = "PSK_OT_export"
    /\ op_pc = "invoke"
    /\ IF ~input_objects_found
       THEN /\ reports' = Append(reports, "ERROR_INVALID_CONTEXT")
            /\ op_result' = "CANCELLED"
            /\ UNCHANGED <<material_list, fileselect_added>>
       ELSE LET populated == populate_material_list(mesh_objects)
            IN /\ material_list' = populated.material_list
               /\ IF populated.raised
                  THEN /\ reports' = Append(reports, "ERROR_INVALID_CONTEXT")
                       /\ op_result' = "CANCELLED"
                       /\ UNCHANGED fileselect_added
                  ELSE /\ fileselect_added' = TRUE
                       /\ op_result' = "RUNNING_MODAL"
                       /\ UNCHANGED reports
    /\ op_pc' = "done"
    /\ UNCHANGED <<operator, sequence_source, export_sequences, sequence_list,
                   builder_called, document, importer_called, writer_called>>
    /\ UNCHANGED <<input_objects_found, mesh_objects>>
    /\ UNCHANGED <<import_vars, export_vars, fps_vars, convert_vars, matrix_vars, seq_vars, chunk_vars, codec_vars, cursor_vars, load_vars>>

PskInvokeNext == PskExportInvoke

SpecPskInvoke == PskInvokeInit /\ [][PskInvokeNext]_vars

-----------------------------------------------------------------------------
(* psk/export/operators.py: the cursor of the material list under           *)
(* populate_material_list, PSK_OT_material_list_move_up and                 *)
(* PSK_OT_material_list_move_down.                                          *)

\* The mesh objects of the export dialog: one object with up to
\* MaxCursorMaterials slots, empty or with the material 'a', 'b' or 'c'.
CursorMeshObjectsSet ==
    {<<slots>> :
        slots \in SeqsOf({EmptySlot} \cup {[is_none |-> FALSE, name |-> n] :
                                              n \in {<<97>>, <<98>>, <<99>>}},
                         0, MaxCursorMaterials)}

\* pg.material_list.move(from, to): the item at from is taken out and put
\* in at to; with a position outside the list, or from = to, the list is
\* left as it is.
CollectionMove(list, from, to) ==
    IF from \in 0..(Len(list) - 1) /\ to \in 0..(Len(list) - 1) /\ from # to
    THEN LET without == [i \in 1..(Len(list) - 1) |->
                            IF i < from + 1 THEN list[i] ELSE list[i + 1]]
         IN [i \in 1..Len(list) |->
                IF i < to + 1 THEN without[i]
                ELSE IF i = to + 1 THEN list[from + 1]
                ELSE without[i - 1]]
    ELSE list

\* The export dialog has never been opened: the material list is empty and
\* material_list_index has its default 0.
MaterialListInit ==
    /\ input_objects_found = TRUE
    /\ mesh_objects = <<>>
    /\ material_list = <<>>
    /\ fileselect_added = FALSE
    /\ material_list_index = 0
    /\ material_list_move = NoMove
    /\ cursor_pc = "open"
    /\ ImportAtRest
    /\ ExportAtRest
    /\ FpsAtRest
    /\ OpAtRest
    /\ ConvertAtRest
    /\ MatrixAtRest
    /\ SequencesAtRest
    /\ ChunkAtRest
    /\ CodecAtRest
    /\ LoadAtRest

\* populate_material_list (operators.py 20-35) is called with the mesh
\* objects of the scene as they are now.
PopulateMaterialList ==
    /\ cursor_pc \in {"open", "used"}
    /\ \E objects \in CursorMeshObjectsSet :
          material_list' = populate_material_list(objects).material_list
    /\ cursor_pc' = "used"
    /\ UNCHANGED <<input_objects_found, mesh_objects, fileselect_added, material_list_index,
                   material_list_move>>
    /\ UNCHANGED <<import_vars, export_vars, fps_vars, op_vars, convert_vars, matrix_vars,
                   seq_vars, chunk_vars, codec_vars, load_vars>>

\* PSK_OT_material_list_move_up: poll (44-46) and execute (48-52).
MaterialListMoveUp ==
    /\ cursor_pc \in {"open", "used"}
    /\ material_list_index > 0
    /\ material_list' = CollectionMove(material_list, material_list_index,
                                       material_list_index - 1)
    /\ material_list_move' = [executed |-> TRUE, from |-> material_list_index,
                              to |-> material_list_index - 1, length |-> Len(material_list)]
    /\ material_list_index' = material_list_index - 1
    /\ cursor_pc' = "used"
    /\ UNCHANGED <<input_objects_found, mesh_objects, fileselect_added>>
    /\ UNCHANGED <<import_vars, export_vars, fps_vars, op_vars, convert_vars, matrix_vars,
                   seq_vars, chunk_vars, codec_vars, load_vars>>

\* PSK_OT_material_list_move_down: poll (62-64) and execute (66-70).
MaterialListMoveDown ==
    /\ cursor_pc \in {"open", "used"}
    /\ material_list_index < Len(material_list) - 1
    /\ material_list' = CollectionMove(material_list, material_list_index,
                                       material_list_index + 1)
    /\ material_list_move' = [executed |-> TRUE, from |-> material_list_index,
                              to |-> material_list_index + 1, length |-> Len(material_list)]
    /\ material_list_index' = material_list_index + 1
    /\ cursor_pc' = "used"
    /\ UNCHANGED <<input_objects_found, mesh_objects, fileselect_added>>
    /\ UNCHANGED <<import_vars, export_vars, fps_vars, op_vars, convert_vars, matrix_vars,
                   seq_vars, chunk_vars, codec_vars, load_vars>>

MaterialListNext ==
    \/ PopulateMaterialList
    \/ MaterialListMoveUp
    \/ MaterialListMoveDown

SpecMaterialList == MaterialListInit /\ [][MaterialListNext]_vars

-----------------------------------------------------------------------------
(* psa/import_/operators.py: load_psa_file (107-123).  PsaReader is a call *)
(* out of this file: it raises, or it gives the sequences and the bones of *)
(* the file with their names as bytes.                                     *)

\* The most sequences and bones a PSA file of the model has.
MaxLoadNames == 2

\* The position of the first name of a list that cannot be decoded, 0 when
\* every name can.
FirstUndecodable(names) ==
    LET bad == {i \in 1..Len(names) : Decode1252(names[i]) = UnicodeDecodeError}
    IN IF bad = {} THEN 0 ELSE CHOOSE i \in bad : \A j \in bad : i <= j

\* The names of the items a loop of load_psa_file leaves in its collection:
\* every item is added before its name is decoded, so the item of a name
\* that cannot be decoded is there with the default '' of its name, and the
\* loop ends at it.
AddedNames(names) ==
    LET k == FirstUndecodable(names)
    IN IF k = 0 THEN [i \in 1..Len(names) |-> Decode1252(names[i])]
       ELSE [i \in 1..k |-> IF i < k THEN Decode1252(names[i]) ELSE <<>>]

\* The items of pg.sequence_list for a list of names: is_selected has its
\* default True (properties.py 11-13).
SequenceListItems(names) ==
    [i \in 1..Len(names) |-> [action_name |-> names[i], is_selected |-> TRUE]]

\* The items of pg.psa.bones for a list of names (properties.py 16-17).
BoneItems(names) == [i \in 1..Len(names) |-> [bone_name |-> names[i]]]

\* load_psa_file: the two collections and psa_error after the call.  The
\* collections are cleared and psa_error is emptied before the try; the
\* except clause stores str(e) and leaves the collections as the try left
\* them.
load_psa_file(file) ==
    IF ~file.readable
    THEN [sequence_list |-> <<>>, bones |-> <<>>, psa_error |-> "OSError"]
    ELSE IF FirstUndecodable(file.sequences) # 0
    THEN [sequence_list |-> SequenceListItems(AddedNames(file.sequences)),
          bones |-> <<>>,
          psa_error |-> "UnicodeDecodeError"]
    ELSE IF FirstUndecodable(file.bones) # 0
    THEN [sequence_list |-> SequenceListItems(AddedNames(file.sequences)),
          bones |-> BoneItems(AddedNames(file.bones)),
          psa_error |-> "UnicodeDecodeError"]
    ELSE [sequence_list |-> SequenceListItems(AddedNames(file.sequences)),
          bones |-> BoneItems(AddedNames(file.bones)),
          psa_error |-> ""]

\* The sequence names of the files of the model, as bytes: 'S', 'TS' and
\* the byte 0x81.
LoadNameSet == {<<83>>, <<84, 83>>, <<129>>}

\* The bone names of the files of the model, as bytes: 'S' and the byte 0x81.
LoadBoneNameSet == {<<83>>, <<129>>}

\* The files of the model: one that PsaReader raises on, and the files with
\* up to MaxLoadNames sequences of different names and up to MaxLoadNames
\* bones of different names.
PsaFileSet ==
    {NoPsaFile}
    \cup {[readable |-> TRUE, sequences |-> q, bones |-> b] :
             q \in DistinctSeqsOf(LoadNameSet, 0, MaxLoadNames),
             b \in DistinctSeqsOf(LoadBoneNameSet, 0, MaxLoadNames)}

\* The filter options of the sequence list in the model: a filter name ('',
\* 'S', 's' or '[') as text or as regular expression with the two other
\* options off, or one or both of the two other options on with the filter
\* name empty.
SequenceFilterSet ==
    {[name |-> n, regex |-> r, is_selected |-> FALSE, invert |-> FALSE] :
        n \in {<<>>, <<83>>, <<115>>, <<91>>}, r \in BOOLEAN}
    \cup {[name |-> <<>>, regex |-> FALSE, is_selected |-> b, invert |-> v] :
              b \in BOOLEAN, v \in BOOLEAN}

\* The import dialog before the first call: PSA_PG_import has its defaults,
\* but for the filter options of the sequence list, which the user may have
\* set.
LoadInit ==
    /\ psa_file = NoPsaFile
    /\ pg_sequence_list = <<>>
    /\ pg_psa_bones = <<>>
    /\ psa_error = ""
    /\ \E options \in SequenceFilterSet :
          /\ sequence_filter_name = options.name
          /\ sequence_use_filter_regex = options.regex
          /\ sequence_filter_is_selected = options.is_selected
          /\ sequence_use_filter_invert = options.invert
    /\ load_pc = "open"
    /\ ImportAtRest
    /\ ExportAtRest
    /\ FpsAtRest
    /\ OpAtRest
    /\ PskAtRest
    /\ ConvertAtRest
    /\ MatrixAtRest
    /\ SequencesAtRest
    /\ ChunkAtRest
    /\ CodecAtRest
    /\ CursorAtRest

\* on_psa_file_path_updated (operators.py 127-128): load_psa_file is called
\* with the new file path of the operator.
LoadPsaFile ==
    /\ load_pc \in {"open", "loaded"}
    /\ \E file \in PsaFileSet :
          LET loaded == load_psa_file(file)
          IN /\ psa_file' = file
             /\ pg_sequence_list' = loaded.sequence_list
             /\ pg_psa_bones' = loaded.bones
             /\ psa_error' = loaded.psa_error
    /\ load_pc' = "loaded"
    /\ UNCHANGED <<sequence_filter_name, sequence_use_filter_regex,
                   sequence_filter_is_selected, sequence_use_filter_invert>>
    /\ UNCHANGED <<import_vars, export_vars, fps_vars, op_vars, psk_vars, convert_vars,
                   matrix_vars, seq_vars, chunk_vars, codec_vars, cursor_vars>>

\* PSA_OT_import.invoke (operators.py 186-191): load_psa_file is called with
\* the file path of the operator, and the operator is added to the file
\* selector.
PsaImportInvoke ==
    /\ load_pc \in {"open", "loaded"}
    /\ \E file \in PsaFileSet :
          LET loaded == load_psa_file(file)
          IN /\ psa_file' = file
             /\ pg_sequence_list' = loaded.sequence_list
             /\ pg_psa_bones' = loaded.bones
             /\ psa_error' = loaded.psa_error
    /\ fileselect_added' = TRUE
    /\ load_pc' = "loaded"
    /\ UNCHANGED <<sequence_filter_name, sequence_use_filter_regex,
                   sequence_filter_is_selected, sequence_use_filter_invert>>
    /\ UNCHANGED <<input_objects_found, mesh_objects, material_list>>
    /\ UNCHANGED <<import_vars, export_vars, fps_vars, op_vars, convert_vars,
                   matrix_vars, seq_vars, chunk_vars, codec_vars, cursor_vars>>

\* PSA_OT_import_select_file.invoke (operators.py 102-104): the operator is
\* added to the file selector.
PsaImportSelectFileInvoke ==
    /\ load_pc \in {"open", "loaded"}
    /\ fileselect_added' = TRUE
    /\ UNCHANGED <<input_objects_found, mesh_objects, material_list>>
    /\ UNCHANGED <<import_vars, export_vars, fps_vars, op_vars, convert_vars,
                   matrix_vars, seq_vars, chunk_vars, codec_vars, cursor_vars, load_vars>>

\* fnmatch(name, f'*{filter_name}*') (properties.py 89) for a filter name
\* without the pattern characters '*', '?' and ']', on a platform whose
\* file names are case sensitive: the filter name occurs in the name.
FnMatchContains(name, filter_name) ==
    \E k \in 0..(Len(name) - Len(filter_name)) :
        SubSeq(name, k + 1, k + Len(filter_name)) = filter_name

\* re.compile(pattern) raises re.error (properties.py 79-85), for a pattern
\* of letters and '[': a '[' is never closed.
IsRegexError(pattern) == \E i \in 1..Len(pattern) : pattern[i] = 91

\* regex.match(name) (properties.py 82) for a pattern of letters: the name
\* starts with the pattern.
RegexMatch(pattern, name) ==
    /\ Len(pattern) <= Len(name)
    /\ SubSeq(name, 1, Len(pattern)) = pattern

\* filter_sequences (properties.py 71-102): the flag of every sequence, TRUE
\* when the list shows it.  The filter name hides the sequences whose name
\* does not match it, as text or as regular expression, a regular
\* expression that does not compile hides none; the filter on the selection
\* hides the sequences not selected; the inversion turns every flag.
filter_sequences(sequences) ==
    [i \in 1..Len(sequences) |->
        LET named == IF sequence_use_filter_regex
                     THEN \/ IsRegexError(sequence_filter_name)
                          \/ RegexMatch(sequence_filter_name, sequences[i].action_name)
                     ELSE FnMatchContains(sequences[i].action_name, sequence_filter_name)
            shown == named /\ ~(sequence_filter_is_selected /\ ~sequences[i].is_selected)
        IN IF sequence_use_filter_invert THEN ~shown ELSE shown]

\* get_visible_sequences (properties.py 105-111): the positions of the
\* sequences whose flag is set.
get_visible_sequences(sequences) ==
    {i \in 1..Len(sequences) : filter_sequences(sequences)[i]}

\* The sequence list with is_selected set to the value on the visible
\* sequences.
WithVisibleSequencesSelected(sequences, value) ==
    [i \in 1..Len(sequences) |->
        IF i \in get_visible_sequences(sequences)
        THEN [sequences[i] EXCEPT !.is_selected = value] ELSE sequences[i]]

\* PSA_OT_import_sequences_select_all (operators.py 54-66): enabled by poll
\* when a visible sequence is not selected; execute selects the visible
\* sequences.
ImportSequencesSelectAll ==
    /\ load_pc = "loaded"
    /\ \E i \in get_visible_sequences(pg_sequence_list) : ~pg_sequence_list[i].is_selected
    /\ pg_sequence_list' = WithVisibleSequencesSelected(pg_sequence_list, TRUE)
    /\ UNCHANGED <<psa_file, pg_psa_bones, psa_error, sequence_filter_name,
                   sequence_use_filter_regex, sequence_filter_is_selected,
                   sequence_use_filter_invert, load_pc>>
    /\ UNCHANGED <<import_vars, export_vars, fps_vars, op_vars, psk_vars, convert_vars,
                   matrix_vars, seq_vars, chunk_vars, codec_vars, cursor_vars>>

\* PSA_OT_import_sequences_deselect_all (operators.py 75-87): enabled by
\* poll when a visible sequence is selected; execute deselects the visible
\* sequences.
ImportSequencesDeselectAll ==
    /\ load_pc = "loaded"
    /\ \E i \in get_visible_sequences(pg_sequence_list) : pg_sequence_list[i].is_selected
    /\ pg_sequence_list' = WithVisibleSequencesSelected(pg_sequence_list, FALSE)
    /\ UNCHANGED <<psa_file, pg_psa_bones, psa_error, sequence_filter_name,
                   sequence_use_filter_regex, sequence_filter_is_selected,
                   sequence_use_filter_invert, load_pc>>
    /\ UNCHANGED <<import_vars, export_vars, fps_vars, op_vars, psk_vars, convert_vars,
                   matrix_vars, seq_vars, chunk_vars, codec_vars, cursor_vars>>

\* The most lines the text block of the model has.
MaxSelectTextLines == 2

\* pg.select_text of the model: no text block, or a text block; lines is
\* contents.split('\n'), which has at least one line, each line 'S', 'TS'
\* or empty.
SelectTextSet ==
    {[is_none |-> TRUE, lines |-> <<>>]}
    \cup {[is_none |-> FALSE, lines |-> l] :
             l \in SeqsOf({<<83>>, <<84, 83>>, <<>>}, 1, MaxSelectTextLines)}

\* The sequence list after the loops of operators.py 39-43: a sequence whose
\* name is one of the lines is selected.
SelectedFromText(sequences, lines) ==
    [i \in 1..Len(sequences) |->
        IF \E k \in 1..Len(lines) : sequences[i].action_name = lines[k]
        THEN [sequences[i] EXCEPT !.is_selected = TRUE] ELSE sequences[i]]

\* PSA_OT_import_sequences_from_text (operators.py 18-46): enabled by poll
\* when the list has a sequence.  Without a text block execute reports the
\* error and returns CANCELLED; else it selects the sequences named by the
\* lines, reports their count and returns FINISHED.
ImportSequencesFromText ==
    /\ load_pc = "loaded"
    /\ Len(pg_sequence_list) > 0
    /\ operator' = "PSA_OT_import_sequences_from_text"
    /\ op_pc' = "done"
    /\ \E select_text \in SelectTextSet :
          IF select_text.is_none
          THEN /\ reports' = <<"ERROR_INVALID_CONTEXT">>
               /\ op_result' = "CANCELLED"
               /\ UNCHANGED pg_sequence_list
          ELSE /\ pg_sequence_list' = SelectedFromText(pg_sequence_list, select_text.lines)
               /\ reports' = <<"INFO">>
               /\ op_result' = "FINISHED"
    /\ UNCHANGED <<psa_file, pg_psa_bones, psa_error, sequence_filter_name,
                   sequence_use_filter_regex, sequence_filter_is_selected,
                   sequence_use_filter_invert, load_pc>>
    /\ UNCHANGED <<sequence_source, export_sequences, sequence_list, builder_called,
                   document, importer_called, writer_called>>
    /\ UNCHANGED <<import_vars, export_vars, fps_vars, psk_vars, convert_vars,
                   matrix_vars, seq_vars, chunk_vars, codec_vars, cursor_vars>>

LoadNext ==
    \/ LoadPsaFile
    \/ PsaImportInvoke
    \/ PsaImportSelectFileInvoke
    \/ ImportSequencesSelectAll
    \/ ImportSequencesDeselectAll
    \/ ImportSequencesFromText

SpecLoad == LoadInit /\ [][LoadNext]_vars

-----------------------------------------------------------------------------
(* psa/importer.py: the bind pose of the import bones (138-159) and         *)
(* _calculate_fcurve_data (38-53).                                          *)
(* A quaternion is <<w, x, y, z>> with every component given in halves:     *)
(* <<2, 0, 0, 0>> is the identity and <<1, 1, 1, 1>> is (1 + i + j + k)/2.  *)
(* The quaternions of the model are the 24 unit quaternions whose           *)
(* components are all whole or all half-odd; their rotations map vectors    *)
(* of whole numbers to vectors of whole numbers.  A vector is <<x, y, z>>.  *)

\* Quaternion(): the identity.
IdentityQuaternion == <<2, 0, 0, 0>>

\* Vector(): the zero vector.
ZeroVector == <<0, 0, 0>>

\* The unit quaternions of the model.
QuaternionSet ==
    {q \in (-2..2) \X (-2..2) \X (-2..2) \X (-2..2) :
        q[1] * q[1] + q[2] * q[2] + q[3] * q[3] + q[4] * q[4] = 4}

\* The product a b of two quaternions.
QuaternionProduct(a, b) ==
    << (a[1] * b[1] - a[2] * b[2] - a[3] * b[3] - a[4] * b[4]) \div 2,
       (a[1] * b[2] + a[2] * b[1] + a[3] * b[4] - a[4] * b[3]) \div 2,
       (a[1] * b[3] - a[2] * b[4] + a[3] * b[1] + a[4] * b[2]) \div 2,
       (a[1] * b[4] + a[2] * b[3] - a[3] * b[2] + a[4] * b[1]) \div 2 >>

\* Quaternion.conjugated()
Conjugated(q) == <<q[1], -q[2], -q[3], -q[4]>>

\* -q, the other quaternion of the same rotation.
Negated(q) == <<-q[1], -q[2], -q[3], -q[4]>>

\* The quaternion a rotation matrix is converted to: of q and -q, the one
\* whose w is positive or, when w is 0, whose component other than 0 is
\* positive.
MatrixToQuaternion(q) ==
    LET first == CHOOSE i \in 1..4 : q[i] # 0 /\ \A j \in 1..(i - 1) : q[j] = 0
    IN IF q[first] < 0 THEN Negated(q) ELSE q

\* Quaternion.rotate(other): the rotation of self followed by the rotation
\* of other.  mathutils multiplies the two rotation matrices and converts
\* the product back to a quaternion.
QuaternionRotate(self, other) == MatrixToQuaternion(QuaternionProduct(other, self))

\* Vector.rotate(other): the vector rotated by the quaternion.
VectorRotate(v, other) ==
    LET r == QuaternionProduct(QuaternionProduct(other, <<0, 2 * v[1], 2 * v[2], 2 * v[3]>>),
                               Conjugated(other))
    IN <<r[2] \div 2, r[3] \div 2, r[4] \div 2>>

\* Mutant of VectorSub: the second vector is not subtracted.
VectorSub_Minuend(a, b) == a

\* The difference of two vectors.
VectorSub(a, b) == <<a[1] - b[1], a[2] - b[2], a[3] - b[3]>>

\* Mutant of KeyDelta: the rules of the root and of the other bones are
\* exchanged.
KeyDelta_Mirrored(post_quat, has_parent, key_rotation) ==
    IF has_parent
    THEN QuaternionRotate(post_quat, Conjugated(key_rotation))
    ELSE QuaternionRotate(post_quat, key_rotation)

\* Mutant of KeyDelta: the non-root rule is used for every bone.
KeyDelta_IgnoresParent(post_quat, has_parent, key_rotation) ==
    QuaternionRotate(post_quat, key_rotation)

\* q of importer.py 45-49: the copy of post_quat rotated by the conjugate of
\* the key rotation for a bone without parent, by the key rotation for a
\* bone with a parent.
KeyDelta(post_quat, has_parent, key_rotation) ==
    IF ~has_parent
    THEN QuaternionRotate(post_quat, Conjugated(key_rotation))
    ELSE QuaternionRotate(post_quat, key_rotation)

\* _calculate_fcurve_data: the seven values returned for a key.
calculate_fcurve_data(bone, key) ==
    LET key_rotation == <<key[1], key[2], key[3], key[4]>>
        key_location == <<key[5], key[6], key[7]>>
        quat == QuaternionRotate(bone.post_quat, bone.orig_quat)
        q == KeyDelta(bone.post_quat, bone.has_parent, key_rotation)
        rotated == QuaternionRotate(quat, Conjugated(q))
        loc == VectorRotate(VectorSub(key_location, bone.orig_loc),
                            Conjugated(bone.post_quat))
    IN <<rotated[1], rotated[2], rotated[3], rotated[4], loc[1], loc[2], loc[3]>>

\* import_bone.parent is set (importer.py 140-141): the armature bone has a
\* parent and the parent's name is among the PSA bone names.
HasImportParent(bone) == bone.has_parent /\ bone.parent_in_psa

\* The bind pose of an import bone (importer.py 142-158): from the bone's
\* custom properties when it has 'orig_quat', else from its matrix and its
\* parent's.  matrix_local.to_quaternion() is the bone's rotation.
BindPose(bone) ==
    IF bone.has_orig_quat
    THEN [has_parent |-> HasImportParent(bone),
          orig_quat |-> bone.orig_quat,
          orig_loc |-> bone.orig_loc,
          post_quat |-> bone.post_quat]
    ELSE IF HasImportParent(bone)
    THEN LET orig_quat ==
                 Conjugated(QuaternionRotate(MatrixToQuaternion(bone.rotation),
                                             Conjugated(MatrixToQuaternion(bone.parent_rotation))))
         IN [has_parent |-> TRUE,
             orig_quat |-> orig_quat,
             orig_loc |-> VectorRotate(VectorSub(bone.translation, bone.parent_translation),
                                       Conjugated(MatrixToQuaternion(bone.parent_rotation))),
             post_quat |-> Conjugated(orig_quat)]
    ELSE [has_parent |-> FALSE,
          orig_quat |-> MatrixToQuaternion(bone.rotation),
          orig_loc |-> bone.translation,
          post_quat |-> Conjugated(MatrixToQuaternion(bone.rotation))]

\* The rotations an armature bone and its custom properties are drawn from:
\* the identity, a half turn, and a third of a turn with its inverse.
BoneQuaternionSet == {<<2, 0, 0, 0>>, <<0, 2, 0, 0>>, <<1, 1, 1, 1>>, <<1, -1, -1, -1>>}

\* The translations an armature bone and its custom properties are drawn from.
BoneLocationSet == {<<0, 0, 0>>, <<MaxCoord, 0, 0>>}

\* The locations of a key.
KeyLocationSet == {<<x, y, 0>> : x \in -MaxCoord..MaxCoord, y \in 0..MaxCoord}

\* The keys of a sequence data matrix: a rotation and a location.
KeyDataSet ==
    {<<q[1], q[2], q[3], q[4], l[1], l[2], l[3]>> : q \in QuaternionSet, l \in KeyLocationSet}

\* An armature bone with or without a parent; parent_in_psa says whether the
\* parent's name is among the PSA bone names.
ParentSet ==
    {[has_parent |-> FALSE, parent_in_psa |-> FALSE],
     [has_parent |-> TRUE, parent_in_psa |-> FALSE],
     [has_parent |-> TRUE, parent_in_psa |-> TRUE]}

\* Armature bones that carry the custom properties 'orig_quat', 'orig_loc'
\* and 'post_quat'.
AuxiliaryBoneSet ==
    {[has_parent |-> p.has_parent, parent_in_psa |-> p.parent_in_psa,
      has_orig_quat |-> TRUE, orig_quat |-> oq, orig_loc |-> ol, post_quat |-> pq,
      rotation |-> IdentityQuaternion, translation |-> ZeroVector,
      parent_rotation |-> IdentityQuaternion, parent_translation |-> ZeroVector] :
        p \in ParentSet, oq \in BoneQuaternionSet, ol \in BoneLocationSet,
        pq \in BoneQuaternionSet}

\* Armature bones without the custom properties: matrix_local of the bone
\* and of its parent.
PlainBoneSet ==
    {[has_parent |-> p.has_parent, parent_in_psa |-> p.parent_in_psa,
      has_orig_quat |-> FALSE, orig_quat |-> IdentityQuaternion, orig_loc |-> ZeroVector,
      post_quat |-> IdentityQuaternion,
      rotation |-> r, translation |-> t,
      parent_rotation |-> IF p.has_parent THEN pr ELSE IdentityQuaternion,
      parent_translation |-> ZeroVector] :
        p \in ParentSet, r \in BoneQuaternionSet, t \in BoneLocationSet,
        pr \in BoneQuaternionSet}

ArmatureBoneSet == AuxiliaryBoneSet \cup PlainBoneSet

\* One mapped bone of the armature and one key of the sequence data matrix.
ConvertInit ==
    /\ armature_bone \in ArmatureBoneSet
    /\ import_bone = <<>>
    /\ key_data \in KeyDataSet
    /\ fcurve_data = <<>>
    /\ convert_pc = "bind_pose"
    /\ ImportAtRest
    /\ ExportAtRest
    /\ FpsAtRest
    /\ OpAtRest
    /\ PskAtRest
    /\ MatrixAtRest
    /\ SequencesAtRest
    /\ ChunkAtRest
    /\ CodecAtRest
    /\ CursorAtRest
    /\ LoadAtRest

\* One turn of the loop of importer.py 138-159.
CalculateBindPose ==
    /\ convert_pc = "bind_pose"
    /\ import_bone' = BindPose(armature_bone)
    /\ convert_pc' = "convert"
    /\ UNCHANGED <<armature_bone, key_data, fcurve_data>>
    /\ UNCHANGED <<import_vars, export_vars, fps_vars, op_vars, psk_vars, matrix_vars, seq_vars, chunk_vars, codec_vars, cursor_vars, load_vars>>

\* importer.py 205-207: the key of a frame is replaced by its local-space
\* key data.
CalculateFCurveData ==
    /\ convert_pc = "convert"
    /\ fcurve_data' = calculate_fcurve_data(import_bone, key_data)
    /\ convert_pc' = "converted"
    /\ UNCHANGED <<armature_bone, import_bone, key_data>>
    /\ UNCHANGED <<import_vars, export_vars, fps_vars, op_vars, psk_vars, matrix_vars, seq_vars, chunk_vars, codec_vars, cursor_vars, load_vars>>

ConvertNext == CalculateBindPose \/ CalculateFCurveData

SpecConvert == ConvertInit /\ [][ConvertNext]_vars

-----------------------------------------------------------------------------
(* psa/importer.py: the conversion of a sequence data matrix to local       *)
(* space (196-207).                                                         *)

\* None in import_bones: the PSA bone maps to no armature bone.
NoImportBone ==
    [is_none |-> TRUE, has_parent |-> FALSE, orig_quat |-> IdentityQuaternion,
     orig_loc |-> ZeroVector, post_quat |-> IdentityQuaternion]

\* The import bones of the matrix: none, a bone without parent and a bone
\* with a parent, turned by a third of a turn and moved away.
MatrixBoneSet ==
    {NoImportBone,
     [is_none |-> FALSE, has_parent |-> FALSE, orig_quat |-> <<1, 1, 1, 1>>,
      orig_loc |-> <<1, 0, 0>>, post_quat |-> <<1, -1, -1, -1>>],
     [is_none |-> FALSE, has_parent |-> TRUE, orig_quat |-> <<1, 1, 1, 1>>,
      orig_loc |-> <<0, 1, 0>>, post_quat |-> <<0, 2, 0, 0>>]}

\* The keys of the matrix in the file.
MatrixKeySet == {<<1, 1, 1, 1, 0, 0, 0>>, <<0, 2, 0, 0, 1, 1, 0>>}

\* The matrices of frame_count frames and bone_count bones.
MatricesOf(values, frame_count, bone_count) ==
    [1..frame_count -> [1..bone_count -> values]]

\* Mutant of CellInput: the key of the first frame is read for every frame.
CellInput_FirstFrame(matrix, frame_index, bone_index) == matrix[1][bone_index + 1]

\* key_data = sequence_data_matrix[frame_index, bone_index]
CellInput(matrix, frame_index, bone_index) == matrix[frame_index + 1][bone_index + 1]

\* sequence_data_matrix[frame_index, bone_index] = value
CellSet(matrix, frame_index, bone_index, value) ==
    [matrix EXCEPT ![frame_index + 1][bone_index + 1] = value]

\* import_psa has built the import bones of a sequence of 1..MaxMatrixFrames
\* frames and 1..MaxMatrixBones bones and is about to read its keys.
MatrixInit ==
    /\ \E frame_count \in 1..MaxMatrixFrames, bone_count \in 1..MaxMatrixBones :
          /\ psa_matrix \in MatricesOf(MatrixKeySet, frame_count, bone_count)
          /\ matrix_bones \in [1..bone_count -> MatrixBoneSet]
          /\ cell_calls = [f \in 1..frame_count |-> [b \in 1..bone_count |-> 0]]
          /\ reordered_calls = [f \in 1..frame_count |-> [b \in 1..bone_count |-> 0]]
          /\ keys_in_flight = [f \in 1..frame_count |-> [b \in 1..bone_count |-> <<>>]]
    /\ sequence_data_matrix = <<>>
    /\ reordered_matrix = <<>>
    /\ cell_bone_index = 0
    /\ cell_frame_index = 0
    /\ matrix_pc = "read"
    /\ ImportAtRest
    /\ ExportAtRest
    /\ FpsAtRest
    /\ OpAtRest
    /\ PskAtRest
    /\ ConvertAtRest
    /\ SequencesAtRest
    /\ ChunkAtRest
    /\ CodecAtRest
    /\ CursorAtRest
    /\ LoadAtRest

\* importer.py 197: psa_reader.read_sequence_data_matrix(sequence_name)
ReadSequenceDataMatrix ==
    /\ matrix_pc = "read"
    /\ sequence_data_matrix' = psa_matrix
    /\ reordered_matrix' = psa_matrix
    /\ matrix_pc' = "convert"
    /\ UNCHANGED <<psa_matrix, matrix_bones, cell_bone_index, cell_frame_index, cell_calls,
                   keys_in_flight, reordered_calls>>
    /\ UNCHANGED <<import_vars, export_vars, fps_vars, op_vars, psk_vars, convert_vars, seq_vars, chunk_vars, codec_vars, cursor_vars, load_vars>>

\* importer.py 200-202: the bone is None, the loop goes on to the next bone.
SkipUnmappedBone ==
    /\ matrix_pc = "convert"
    /\ cell_bone_index < Len(matrix_bones)
    /\ matrix_bones[cell_bone_index + 1].is_none
    /\ cell_bone_index' = cell_bone_index + 1
    /\ UNCHANGED <<psa_matrix, matrix_bones, sequence_data_matrix, cell_frame_index,
                   cell_calls, reordered_matrix, keys_in_flight, reordered_calls, matrix_pc>>
    /\ UNCHANGED <<import_vars, export_vars, fps_vars, op_vars, psk_vars, convert_vars, seq_vars, chunk_vars, codec_vars, cursor_vars, load_vars>>

\* importer.py 203-207: one turn of the loop over the frames of a bone.
ConvertCell ==
    /\ matrix_pc = "convert"
    /\ cell_bone_index < Len(matrix_bones)
    /\ ~matrix_bones[cell_bone_index + 1].is_none
    /\ LET cell_data == CellInput(sequence_data_matrix, cell_frame_index, cell_bone_index)
       IN sequence_data_matrix' =
              CellSet(sequence_data_matrix, cell_frame_index, cell_bone_index,
                      calculate_fcurve_data(matrix_bones[cell_bone_index + 1], cell_data))
    /\ cell_calls' = CellSet(cell_calls, cell_frame_index, cell_bone_index,
                             CellInput(cell_calls, cell_frame_index, cell_bone_index) + 1)
    /\ IF cell_frame_index + 1 < Len(sequence_data_matrix)
       THEN /\ cell_frame_index' = cell_frame_index + 1
            /\ UNCHANGED cell_bone_index
       ELSE /\ cell_frame_index' = 0
            /\ cell_bone_index' = cell_bone_index + 1
    /\ UNCHANGED <<psa_matrix, matrix_bones, reordered_matrix, keys_in_flight,
                   reordered_calls, matrix_pc>>
    /\ UNCHANGED <<import_vars, export_vars, fps_vars, op_vars, psk_vars, convert_vars, seq_vars, chunk_vars, codec_vars, cursor_vars, load_vars>>

\* The loop over the bones has ended.
FinishConversion ==
    /\ matrix_pc = "convert"
    /\ cell_bone_index = Len(matrix_bones)
    /\ matrix_pc' = "converted"
    /\ UNCHANGED <<psa_matrix, matrix_bones, sequence_data_matrix, cell_bone_index,
                   cell_frame_index, cell_calls, reordered_matrix, keys_in_flight,
                   reordered_calls>>
    /\ UNCHANGED <<import_vars, export_vars, fps_vars, op_vars, psk_vars, convert_vars, seq_vars, chunk_vars, codec_vars, cursor_vars, load_vars>>

(* The loops of import_psa take the cells bone by bone and frame by frame,  *)
(* as above.  The turns of the inner loop are taken below in every other    *)
(* order as well, on a second copy of the matrix read: a turn is the read   *)
(* of line 205 and the store of line 207, a turn is taken once for every    *)
(* cell of a bone that is not None, and turns of different cells may have   *)
(* read and not yet stored at the same time.                                *)

\* The cells of the bones that are not None, by frame and bone from 1.
MappedCells ==
    {c \in (1..Len(psa_matrix)) \X (1..Len(matrix_bones)) : ~matrix_bones[c[2]].is_none}

\* The other orders are run after the loops of import_psa, on the matrices
\* of the bound.
ReorderedRun ==
    /\ matrix_pc = "converted"
    /\ Cardinality(MappedCells) <= MaxReorderedCells

\* importer.py 205, for a cell in any order:
\* key_data = sequence_data_matrix[frame_index, bone_index]
ReadCellInAnyOrder ==
    /\ ReorderedRun
    /\ \E c \in MappedCells :
          /\ reordered_calls[c[1]][c[2]] = 0
          /\ keys_in_flight[c[1]][c[2]] = <<>>
          /\ keys_in_flight' =
                 CellSet(keys_in_flight, c[1] - 1, c[2] - 1,
                         CellInput(reordered_matrix, c[1] - 1, c[2] - 1))
    /\ UNCHANGED <<psa_matrix, matrix_bones, sequence_data_matrix, cell_bone_index,
                   cell_frame_index, cell_calls, reordered_matrix, reordered_calls,
                   matrix_pc>>
    /\ UNCHANGED <<import_vars, export_vars, fps_vars, op_vars, psk_vars, convert_vars, seq_vars, chunk_vars, codec_vars, cursor_vars, load_vars>>

\* importer.py 207, for a cell whose key has been read:
\* sequence_data_matrix[frame_index, bone_index] =
\*     _calculate_fcurve_data(import_bone, key_data)
StoreCellInAnyOrder ==
    /\ ReorderedRun
    /\ \E c \in MappedCells :
          /\ keys_in_flight[c[1]][c[2]] # <<>>
          /\ reordered_matrix' =
                 CellSet(reordered_matrix, c[1] - 1, c[2] - 1,
                         calculate_fcurve_data(matrix_bones[c[2]],
                                               keys_in_flight[c[1]][c[2]]))
          /\ keys_in_flight' = CellSet(keys_in_flight, c[1] - 1, c[2] - 1, <<>>)
          /\ reordered_calls' =
                 CellSet(reordered_calls, c[1] - 1, c[2] - 1,
                         reordered_calls[c[1]][c[2]] + 1)
    /\ UNCHANGED <<psa_matrix, matrix_bones, sequence_data_matrix, cell_bone_index,
                   cell_frame_index, cell_calls, matrix_pc>>
    /\ UNCHANGED <<import_vars, export_vars, fps_vars, op_vars, psk_vars, convert_vars, seq_vars, chunk_vars, codec_vars, cursor_vars, load_vars>>

\* Every cell of a bone that is not None has had its turn.
FinishReordered ==
    /\ ReorderedRun
    /\ \A c \in MappedCells : reordered_calls[c[1]][c[2]] = 1
    /\ matrix_pc' = "reordered"
    /\ UNCHANGED <<psa_matrix, matrix_bones, sequence_data_matrix, cell_bone_index,
                   cell_frame_index, cell_calls, reordered_matrix, keys_in_flight,
                   reordered_calls>>
    /\ UNCHANGED <<import_vars, export_vars, fps_vars, op_vars, psk_vars, convert_vars, seq_vars, chunk_vars, codec_vars, cursor_vars, load_vars>>

MatrixNext ==
    \/ ReadSequenceDataMatrix
    \/ SkipUnmappedBone
    \/ ConvertCell
    \/ FinishConversion
    \/ ReadCellInAnyOrder
    \/ StoreCellInAnyOrder
    \/ FinishReordered

SpecMatrix == MatrixInit /\ [][MatrixNext]_vars

-----------------------------------------------------------------------------
(* psa/importer.py: the sequence loop (163-233), step by step. *)

\* import_psa enters the sequence loop with 1..MaxSequences sequences
\* 'S1', 'S2', ...
SequencesInit ==
    /\ previous_actions \in PreviousActionsSet
    /\ bpy_actions = previous_actions
    /\ import_options \in ImportOptionsSet
    /\ requested_sequences \in {[i \in 1..n |-> <<83, 48 + i>>] : n \in 1..MaxSequences}
    /\ seq_index = 0
    /\ seq_action = 0
    /\ sequence_actions = <<>>
    /\ seq_pc = "begin"
    /\ ImportAtRest
    /\ ExportAtRest
    /\ FpsAtRest
    /\ OpAtRest
    /\ PskAtRest
    /\ ConvertAtRest
    /\ MatrixAtRest
    /\ ChunkAtRest
    /\ CodecAtRest
    /\ CursorAtRest
    /\ LoadAtRest

\* importer.py 165-194: the action of the sequence is looked up or created
\* and, when keyframes are written, its f-curves are replaced by new ones.
BeginSequence ==
    /\ seq_pc = "begin"
    /\ seq_index < Len(requested_sequences)
    /\ LET action_name == import_options.action_name_prefix
                              \o requested_sequences[seq_index + 1]
           existing == UsesExistingAction(bpy_actions, import_options, action_name)
           store == IF existing THEN bpy_actions
                    ELSE Append(bpy_actions,
                                [name |-> UniqueActionName(bpy_actions, action_name),
                                 fcurves |-> "none", psa_sequence_fps |-> "none"])
           position == IF existing THEN ActionPosition(bpy_actions, action_name)
                       ELSE Len(store)
       IN /\ seq_action' = position
          /\ IF import_options.should_write_keyframes
             THEN /\ bpy_actions' = [store EXCEPT ![position] = WithNewFCurves(store[position])]
                  /\ seq_pc' = "read"
             ELSE /\ bpy_actions' = store
                  /\ seq_pc' = "finish"
    /\ UNCHANGED <<previous_actions, import_options, requested_sequences, seq_index,
                   sequence_actions>>
    /\ UNCHANGED <<import_vars, export_vars, fps_vars, op_vars, psk_vars, convert_vars,
                   matrix_vars, chunk_vars, codec_vars, cursor_vars, load_vars>>

\* importer.py 197-223: the data matrix is read and converted and the
\* keyframes are written to the f-curves.
WriteKeyframes ==
    /\ seq_pc = "read"
    /\ bpy_actions' = [bpy_actions EXCEPT ![seq_action].fcurves = "written"]
    /\ seq_pc' = "finish"
    /\ UNCHANGED <<previous_actions, import_options, requested_sequences, seq_index,
                   seq_action, sequence_actions>>
    /\ UNCHANGED <<import_vars, export_vars, fps_vars, op_vars, psk_vars, convert_vars,
                   matrix_vars, chunk_vars, codec_vars, cursor_vars, load_vars>>

\* importer.py 197: psa_reader.read_sequence_data_matrix raises; nothing in
\* import_psa catches the exception.
ReadMatrixRaises ==
    /\ seq_pc = "read"
    /\ seq_pc' = "raised"
    /\ UNCHANGED <<bpy_actions, previous_actions, import_options, requested_sequences,
                   seq_index, seq_action, sequence_actions>>
    /\ UNCHANGED <<import_vars, export_vars, fps_vars, op_vars, psk_vars, convert_vars,
                   matrix_vars, chunk_vars, codec_vars, cursor_vars, load_vars>>

\* importer.py 225-233: the metadata is written and the action is appended
\* to actions.
FinishSequence ==
    /\ seq_pc = "finish"
    /\ bpy_actions' = IF import_options.should_write_metadata
                      THEN [bpy_actions EXCEPT ![seq_action].psa_sequence_fps = "imported"]
                      ELSE bpy_actions
    /\ sequence_actions' = Append(sequence_actions, seq_action)
    /\ seq_index' = seq_index + 1
    /\ seq_pc' = "begin"
    /\ UNCHANGED <<previous_actions, import_options, requested_sequences, seq_action>>
    /\ UNCHANGED <<import_vars, export_vars, fps_vars, op_vars, psk_vars, convert_vars,
                   matrix_vars, chunk_vars, codec_vars, cursor_vars, load_vars>>

\* The sequence loop has ended (importer.py 235-247): with should_stash the
\* animation data of the armature is created when it has none and the
\* actions are stashed on new NLA tracks; the result is returned.
ReturnFromSequences ==
    /\ seq_pc = "begin"
    /\ seq_index = Len(requested_sequences)
    /\ IF import_options.should_stash
       THEN /\ has_animation_data' = TRUE
            /\ nla_tracks' = nla_tracks
                                 \o StashTracks([i \in 1..Len(sequence_actions) |->
                                                    bpy_actions[sequence_actions[i]].name])
       ELSE UNCHANGED <<has_animation_data, nla_tracks>>
    /\ seq_pc' = "returned"
    /\ UNCHANGED <<bpy_actions, previous_actions, import_options, requested_sequences,
                   seq_index, seq_action, sequence_actions>>
    /\ UNCHANGED <<data_actions, timeline_markers, should_override_animation_data,
                   animation_data_override, action_list, marker_list, export_pc>>
    /\ UNCHANGED <<import_vars, fps_vars, op_vars, psk_vars, convert_vars,
                   matrix_vars, chunk_vars, codec_vars, cursor_vars, load_vars>>

SequencesNext ==
    \/ BeginSequence
    \/ WriteKeyframes
    \/ ReadMatrixRaises
    \/ FinishSequence
    \/ ReturnFromSequences

SpecSequences == SequencesInit /\ [][SequencesNext]_vars

-----------------------------------------------------------------------------
(* psk/data.py: the record layouts of the PSK file.                         *)
(* A layout is the list of the fields of a ctypes Structure: the width of   *)
(* an element in bytes, the number of elements and whether the element is   *)
(* signed.  A record is the list of its fields' values, each a sequence of  *)
(* elements; a c_float is its four bytes read as an unsigned integer and a  *)
(* c_char array is the sequence of its bytes.                               *)

Field(name, width, count, signed) ==
    [name |-> name, width |-> width, count |-> count, signed |-> signed]

\* Psk.Wedge16
Wedge16 ==
    [pack |-> 0,
     fields |-> << Field("point_index", 4, 1, FALSE), Field("u", 4, 1, FALSE),
                   Field("v", 4, 1, FALSE), Field("material_index", 1, 1, FALSE),
                   Field("reserved", 1, 1, TRUE), Field("padding2", 2, 1, TRUE) >>]

\* Psk.Wedge32
Wedge32 ==
    [pack |-> 0,
     fields |-> << Field("point_index", 4, 1, FALSE), Field("u", 4, 1, FALSE),
                   Field("v", 4, 1, FALSE), Field("material_index", 4, 1, FALSE) >>]

\* Psk.Face
Face ==
    [pack |-> 0,
     fields |-> << Field("wedge_indices", 2, 3, FALSE), Field("material_index", 1, 1, FALSE),
                   Field("aux_material_index", 1, 1, FALSE),
                   Field("smoothing_groups", 4, 1, TRUE) >>]

\* Psk.Face32, with _pack_ = 1
Face32 ==
    [pack |-> 1,
     fields |-> << Field("wedge_indices", 4, 3, FALSE), Field("material_index", 1, 1, FALSE),
                   Field("aux_material_index", 1, 1, FALSE),
                   Field("smoothing_groups", 4, 1, TRUE) >>]

\* Psk.Material
Material ==
    [pack |-> 0,
     fields |-> << Field("name", 1, 64, FALSE), Field("texture_index", 4, 1, TRUE),
                   Field("poly_flags", 4, 1, TRUE), Field("aux_material", 4, 1, TRUE),
                   Field("aux_flags", 4, 1, TRUE), Field("lod_bias", 4, 1, TRUE),
                   Field("lod_style", 4, 1, TRUE) >>]

\* Psk.Weight
Weight ==
    [pack |-> 0,
     fields |-> << Field("weight", 4, 1, FALSE), Field("point_index", 4, 1, TRUE),
                   Field("bone_index", 4, 1, TRUE) >>]

\* Psk.MorphInfo
MorphInfo ==
    [pack |-> 0,
     fields |-> << Field("name", 1, 64, FALSE), Field("vertex_count", 4, 1, TRUE) >>]

\* Psk.MorphData; its position_delta and tangent_z_delta are three c_float.
MorphData ==
    [pack |-> 0,
     fields |-> << Field("position_delta", 4, 3, FALSE),
                   Field("tangent_z_delta", 4, 3, FALSE),
                   Field("point_index", 4, 1, TRUE) >>]

\* 256 ^ n
RECURSIVE Pow256(_)
Pow256(n) == IF n = 0 THEN 1 ELSE 256 * Pow256(n - 1)

\* The next multiple of alignment at or after offset.
AlignUp(offset, alignment) == ((offset + alignment - 1) \div alignment) * alignment

\* The alignment ctypes gives a field: the width of its element, limited by
\* _pack_ when the Structure has one.
FieldAlignment(layout, k) ==
    LET width == layout.fields[k].width
    IN IF layout.pack > 0 /\ width > layout.pack THEN layout.pack ELSE width

\* The offset of the first byte after the k-th field.
RECURSIVE FieldEnd(_, _)
FieldEnd(layout, k) ==
    IF k = 0 THEN 0
    ELSE AlignUp(FieldEnd(layout, k - 1), FieldAlignment(layout, k))
             + layout.fields[k].width * layout.fields[k].count

\* The offset of the k-th field.
FieldOffset(layout, k) == AlignUp(FieldEnd(layout, k - 1), FieldAlignment(layout, k))

\* The alignment of the Structure: the greatest alignment of its fields.
StructAlignment(layout) ==
    CHOOSE a \in {FieldAlignment(layout, k) : k \in 1..Len(layout.fields)} :
        \A k \in 1..Len(layout.fields) : FieldAlignment(layout, k) <= a

\* sizeof(layout)
SizeOf(layout) == AlignUp(FieldEnd(layout, Len(layout.fields)), StructAlignment(layout))

\* The bytes of an element, least significant first; a value outside the
\* range of the element is reduced to its width.
ElementBytes(value, width) ==
    [i \in 1..width |-> (value \div Pow256(i - 1)) % 256]

\* The unsigned value of a sequence of bytes, least significant first.
RECURSIVE UnsignedValue(_)
UnsignedValue(bytes) ==
    IF bytes = <<>> THEN 0 ELSE bytes[1] + 256 * UnsignedValue(Tail(bytes))

\* The value of an element read from its bytes.
ElementValue(bytes, signed) ==
    LET last == Len(bytes)
        high == IF signed /\ bytes[last] >= 128 THEN bytes[last] - 256 ELSE bytes[last]
    IN UnsignedValue(SubSeq(bytes, 1, last - 1)) + Pow256(last - 1) * high

\* The byte at offset of the record: the byte of the element that lies
\* there, or 0 between the fields.
RecordByte(layout, record, offset) ==
    LET covering == {k \in 1..Len(layout.fields) :
                        /\ FieldOffset(layout, k) <= offset
                        /\ offset < FieldEnd(layout, k)}
    IN IF covering = {} THEN 0
       ELSE LET k == CHOOSE c \in covering : TRUE
                within == offset - FieldOffset(layout, k)
                width == layout.fields[k].width
            IN ElementBytes(record[k][(within \div width) + 1], width)[(within % width) + 1]

\* bytes(record): the record as the bytes of its Structure.
EncodeRecord(layout, record) ==
    [i \in 1..SizeOf(layout) |-> RecordByte(layout, record, i - 1)]

\* Structure.from_buffer_copy(bytes): the fields read from the bytes.
DecodeRecord(layout, bytes) ==
    [k \in 1..Len(layout.fields) |->
        [j \in 1..layout.fields[k].count |->
            LET first == FieldOffset(layout, k) + (j - 1) * layout.fields[k].width
            IN ElementValue(SubSeq(bytes, first + 1, first + layout.fields[k].width),
                            layout.fields[k].signed)]]

\* The logical record of a decoded record: the fields of the 32-bit layout
\* of its kind, without the reserved and padding fields of the 16-bit one.
LogicalRecord(record) == SubSeq(record, 1, 4)

\* The 16-bit and the 32-bit layout of a kind of record.
Layout16(kind) == IF kind = "wedge" THEN Wedge16 ELSE Face
Layout32(kind) == IF kind = "wedge" THEN Wedge32 ELSE Face32

\* The layout a wedge or face chunk is decoded with: the 32-bit layout when
\* record_size is its size, else the 16-bit layout when record_size is its
\* size, else none (0), a format error.
SelectedLayout(kind, record_size) ==
    IF record_size = SizeOf(Layout32(kind)) THEN 32
    ELSE IF record_size = SizeOf(Layout16(kind)) THEN 16
    ELSE 0

\* The records of the chunks: wedges and faces as a writer of the 16-bit
\* and of the 32-bit layout has them; 1065353216 is the c_float 1.0.
Wedge16Set ==
    {<< <<p>>, <<u>>, <<v>>, <<m>>, <<r>>, <<0>> >> :
        p \in {0, 258}, u \in {0, 1065353216}, v \in {0, 1065353216}, m \in {0, 255},
        r \in {0, 1}}
Wedge32Set ==
    {<< <<p>>, <<u>>, <<v>>, <<m>> >> :
        p \in {0, 65538}, u \in {0, 1065353216}, v \in {0, 1065353216}, m \in {0, 256}}
Face16Set ==
    {<< w, <<m>>, <<0>>, <<g>> >> : w \in {<<0, 1, 2>>, <<2, 1, 258>>}, m \in {0, 1}, g \in {0, -1}}
Face32Set ==
    {<< w, <<m>>, <<0>>, <<g>> >> : w \in {<<0, 1, 2>>, <<65538, 1, 2>>}, m \in {0, 1}, g \in {0, -1}}

\* The record sizes of a chunk that was written in neither layout.
OtherRecordSizeSet == {10, 20}

\* A wedge or face chunk of one record is about to be decoded: it was
\* written in the 16-bit or in the 32-bit layout, or it declares another
\* record size.
ChunkInit ==
    /\ chunk_kind \in {"wedge", "face"}
    /\ chunk_written_as \in {0, 16, 32}
    /\ \/ /\ chunk_written_as = 16
          /\ \E record \in IF chunk_kind = "wedge" THEN Wedge16Set ELSE Face16Set :
                chunk_bytes = EncodeRecord(Layout16(chunk_kind), record)
          /\ chunk_record_size = SizeOf(Layout16(chunk_kind))
       \/ /\ chunk_written_as = 32
          /\ \E record \in IF chunk_kind = "wedge" THEN Wedge32Set ELSE Face32Set :
                chunk_bytes = EncodeRecord(Layout32(chunk_kind), record)
          /\ chunk_record_size = SizeOf(Layout32(chunk_kind))
       \/ /\ chunk_written_as = 0
          /\ chunk_record_size \in OtherRecordSizeSet
          /\ chunk_bytes = [i \in 1..chunk_record_size |-> 0]
    /\ chunk_decoded = <<>>
    /\ chunk_pc = "decode"
    /\ ImportAtRest
    /\ ExportAtRest
    /\ FpsAtRest
    /\ OpAtRest
    /\ PskAtRest
    /\ ConvertAtRest
    /\ MatrixAtRest
    /\ SequencesAtRest
    /\ CodecAtRest
    /\ CursorAtRest
    /\ LoadAtRest

\* The chunk is decoded with the layout selected by its record size.
DecodeChunk ==
    /\ chunk_pc = "decode"
    /\ LET selected == SelectedLayout(chunk_kind, chunk_record_size)
       IN chunk_decoded' =
              IF selected = 0
              THEN [error |-> TRUE, layout |-> 0, record |-> <<>>]
              ELSE [error |-> FALSE, layout |-> selected,
                    record |-> LogicalRecord(DecodeRecord(
                                   IF selected = 32 THEN Layout32(chunk_kind)
                                   ELSE Layout16(chunk_kind),
                                   chunk_bytes))]
    /\ chunk_pc' = "decoded"
    /\ UNCHANGED <<chunk_kind, chunk_written_as, chunk_record_size, chunk_bytes>>
    /\ UNCHANGED <<import_vars, export_vars, fps_vars, op_vars, psk_vars, convert_vars,
                   matrix_vars, seq_vars, codec_vars, cursor_vars, load_vars>>

ChunkNext == DecodeChunk

SpecChunk == ChunkInit /\ [][ChunkNext]_vars

-----------------------------------------------------------------------------
(* The PSK file: a sequence of chunks, each a header of 32 bytes (id of 20  *)
(* bytes padded with NUL, type_flag, record_size, record_count) followed by *)
(* record_count records of record_size bytes.  The chunks are written in    *)
(* the order header, points, wedges, faces, materials, bones, weights,      *)
(* extra UVs, vertex colors, morph infos, morph data; the last four are     *)
(* optional.  The file layout has no chunk for the vertex normals and the   *)
(* material references of a Psk.                                            *)

\* Vector3: three c_float.
Vector3 ==
    [pack |-> 0,
     fields |-> << Field("x", 4, 1, FALSE), Field("y", 4, 1, FALSE), Field("z", 4, 1, FALSE) >>]

\* Vector2: two c_float.
Vector2 ==
    [pack |-> 0, fields |-> << Field("x", 4, 1, FALSE), Field("y", 4, 1, FALSE) >>]

\* Color: four c_ubyte.
Color ==
    [pack |-> 0,
     fields |-> << Field("r", 1, 1, FALSE), Field("g", 1, 1, FALSE),
                   Field("b", 1, 1, FALSE), Field("a", 1, 1, FALSE) >>]

\* Psk.Bone; its rotation is four c_float, its location and size three.
Bone ==
    [pack |-> 0,
     fields |-> << Field("name", 1, 64, FALSE), Field("flags", 4, 1, TRUE),
                   Field("children_count", 4, 1, TRUE), Field("parent_index", 4, 1, TRUE),
                   Field("rotation", 4, 4, FALSE), Field("location", 4, 3, FALSE),
                   Field("length", 4, 1, FALSE), Field("size", 4, 3, FALSE) >>]

\* The ids of the chunks: 'ACTRHEAD', 'PNTS0000', 'VTXW0000', 'FACE0000',
\* 'MATT0000', 'REFSKELT', 'RAWWEIGHTS', 'EXTRAUVS0', 'VERTEXCOLOR',
\* 'MRPHINFO', 'MRPHDATA'.
IdHeader == <<65, 67, 84, 82, 72, 69, 65, 68>>
IdPoints == <<80, 78, 84, 83, 48, 48, 48, 48>>
IdWedges == <<86, 84, 88, 87, 48, 48, 48, 48>>
IdFaces == <<70, 65, 67, 69, 48, 48, 48, 48>>
IdMaterials == <<77, 65, 84, 84, 48, 48, 48, 48>>
IdBones == <<82, 69, 70, 83, 75, 69, 76, 84>>
IdWeights == <<82, 65, 87, 87, 69, 73, 71, 72, 84, 83>>
IdExtraUvs == <<69, 88, 84, 82, 65, 85, 86, 83, 48>>
IdVertexColors == <<86, 69, 82, 84, 69, 88, 67, 79, 76, 79, 82>>
IdMorphInfos == <<77, 82, 80, 72, 73, 78, 70, 79>>
IdMorphData == <<77, 82, 80, 72, 68, 65, 84, 65>>

\* Psk.has_extra_uvs, Psk.has_vertex_colors, Psk.has_vertex_normals,
\* Psk.has_material_references, Psk.has_morph_data
has_extra_uvs(doc) == Len(doc.extra_uvs) > 0
has_vertex_colors(doc) == Len(doc.vertex_colors) > 0
has_vertex_normals(doc) == Len(doc.vertex_normals) > 0
has_material_references(doc) == Len(doc.material_references) > 0
has_morph_data(doc) == Len(doc.morph_infos) > 0

\* Mutant of PadText: the text is padded with spaces.
PadText_Spaces(text, width) == text \o [i \in 1..(width - Len(text)) |-> 32]

\* A text in a fixed-width field: padded with NUL bytes to the width.
PadText(text, width) == text \o [i \in 1..(width - Len(text)) |-> 0]

\* The text of a fixed-width field: the bytes before the first NUL.
TextOf(bytes) ==
    LET nuls == {i \in 1..Len(bytes) : bytes[i] = 0}
    IN IF nuls = {} THEN bytes
       ELSE SubSeq(bytes, 1, (CHOOSE i \in nuls : \A j \in nuls : i <= j) - 1)

\* The first field of a material or bone is its name.
WithPaddedName(record) == [record EXCEPT ![1] = PadText(record[1], 64)]
WithNameText(record) == [record EXCEPT ![1] = TextOf(record[1])]

\* The 16-bit wedge of a logical wedge: reserved and padding2 are 0.
AsWedge16(wedge) == wedge \o << <<0>>, <<0>> >>

\* The concatenation of a sequence of byte sequences.
RECURSIVE Concat(_)
Concat(parts) == IF parts = <<>> THEN <<>> ELSE Head(parts) \o Concat(Tail(parts))

\* The type_flag of every chunk.
TypeFlag == 1999801

\* A chunk: its header and its records.
Chunk(id, record_size, records) ==
    PadText(id, 20) \o ElementBytes(TypeFlag, 4) \o ElementBytes(record_size, 4)
        \o ElementBytes(Len(records), 4) \o Concat(records)

\* The records of a list under a layout.
EncodeRecords(layout, records) ==
    [i \in 1..Len(records) |-> EncodeRecord(layout, records[i])]

\* The records of a list whose first field is a name of 64 bytes.
EncodeNamedRecords(layout, records) ==
    EncodeRecords(layout, [i \in 1..Len(records) |-> WithPaddedName(records[i])])

\* write: the bytes of the document, the wedges and faces in the 32-bit
\* layouts when wide.  An optional chunk is written when the document has
\* its records, the two morph chunks when it has morph data.  The vertex
\* normals and the material references are in no chunk.
WritePskDocument(doc, wide) ==
    LET wedge_layout == IF wide THEN Wedge32 ELSE Wedge16
        face_layout == IF wide THEN Face32 ELSE Face
    IN Chunk(IdHeader, 0, <<>>)
       \o Chunk(IdPoints, SizeOf(Vector3), EncodeRecords(Vector3, doc.points))
       \o Chunk(IdWedges, SizeOf(wedge_layout),
                EncodeRecords(wedge_layout,
                              [i \in 1..Len(doc.wedges) |->
                                  IF wide THEN doc.wedges[i] ELSE AsWedge16(doc.wedges[i])]))
       \o Chunk(IdFaces, SizeOf(face_layout), EncodeRecords(face_layout, doc.faces))
       \o Chunk(IdMaterials, SizeOf(Material), EncodeNamedRecords(Material, doc.materials))
       \o Chunk(IdBones, SizeOf(Bone), EncodeNamedRecords(Bone, doc.bones))
       \o Chunk(IdWeights, SizeOf(Weight), EncodeRecords(Weight, doc.weights))
       \o (IF has_extra_uvs(doc)
           THEN Chunk(IdExtraUvs, SizeOf(Vector2), EncodeRecords(Vector2, doc.extra_uvs))
           ELSE <<>>)
       \o (IF has_vertex_colors(doc)
           THEN Chunk(IdVertexColors, SizeOf(Color), EncodeRecords(Color, doc.vertex_colors))
           ELSE <<>>)
       \o (IF has_morph_data(doc)
           THEN Chunk(IdMorphInfos, SizeOf(MorphInfo),
                      EncodeNamedRecords(MorphInfo, doc.morph_infos))
                \o Chunk(IdMorphData, SizeOf(MorphData),
                         EncodeRecords(MorphData, doc.morph_data))
           ELSE <<>>)

\* Psk(): the document without records.
EmptyPsk ==
    [points |-> <<>>, wedges |-> <<>>, faces |-> <<>>, materials |-> <<>>, weights |-> <<>>,
     bones |-> <<>>, extra_uvs |-> <<>>, vertex_colors |-> <<>>, vertex_normals |-> <<>>,
     morph_infos |-> <<>>, morph_data |-> <<>>, material_references |-> <<>>]

\* The result of a read that fails with a format error.
FormatError == [error |-> TRUE, chunk_order |-> <<>>, document |-> EmptyPsk]

\* The records of a chunk's payload, decoded with a layout.
DecodeRecords(layout, payload, record_size, record_count) ==
    [i \in 1..record_count |->
        DecodeRecord(layout, SubSeq(payload, (i - 1) * record_size + 1, i * record_size))]

\* The layout a chunk of the id is decoded with when its record size is
\* record_size: "none" when the size fits no layout of the id, "skip" for
\* an id that is not known.
ChunkLayout(id, record_size) ==
    IF id = IdHeader THEN "header"
    ELSE IF id = IdPoints THEN (IF record_size = SizeOf(Vector3) THEN "Vector3" ELSE "none")
    ELSE IF id = IdWedges
         THEN (IF SelectedLayout("wedge", record_size) = 32 THEN "Wedge32"
               ELSE IF SelectedLayout("wedge", record_size) = 16 THEN "Wedge16" ELSE "none")
    ELSE IF id = IdFaces
         THEN (IF SelectedLayout("face", record_size) = 32 THEN "Face32"
               ELSE IF SelectedLayout("face", record_size) = 16 THEN "Face" ELSE "none")
    ELSE IF id = IdMaterials THEN (IF record_size = SizeOf(Material) THEN "Material" ELSE "none")
    ELSE IF id = IdBones THEN (IF record_size = SizeOf(Bone) THEN "Bone" ELSE "none")
    ELSE IF id = IdWeights THEN (IF record_size = SizeOf(Weight) THEN "Weight" ELSE "none")
    ELSE IF id = IdExtraUvs THEN (IF record_size = SizeOf(Vector2) THEN "Vector2" ELSE "none")
    ELSE IF id = IdVertexColors THEN (IF record_size = SizeOf(Color) THEN "Color" ELSE "none")
    ELSE IF id = IdMorphInfos
         THEN (IF record_size = SizeOf(MorphInfo) THEN "MorphInfo" ELSE "none")
    ELSE IF id = IdMorphData
         THEN (IF record_size = SizeOf(MorphData) THEN "MorphData" ELSE "none")
    ELSE "skip"

\* The document with the records of one chunk.
WithChunk(doc, layout, payload, record_size, record_count) ==
    LET records(l) == DecodeRecords(l, payload, record_size, record_count)
    IN IF layout = "Vector3" THEN [doc EXCEPT !.points = records(Vector3)]
       ELSE IF layout = "Wedge32" THEN [doc EXCEPT !.wedges = records(Wedge32)]
       ELSE IF layout = "Wedge16"
            THEN [doc EXCEPT !.wedges =
                     [i \in 1..record_count |-> LogicalRecord(records(Wedge16)[i])]]
       ELSE IF layout = "Face32" THEN [doc EXCEPT !.faces = records(Face32)]
       ELSE IF layout = "Face" THEN [doc EXCEPT !.faces = records(Face)]
       ELSE IF layout = "Material"
            THEN [doc EXCEPT !.materials =
                     [i \in 1..record_count |-> WithNameText(records(Material)[i])]]
       ELSE IF layout = "Bone"
            THEN [doc EXCEPT !.bones =
                     [i \in 1..record_count |-> WithNameText(records(Bone)[i])]]
       ELSE IF layout = "Weight" THEN [doc EXCEPT !.weights = records(Weight)]
       ELSE IF layout = "Vector2" THEN [doc EXCEPT !.extra_uvs = records(Vector2)]
       ELSE IF layout = "Color" THEN [doc EXCEPT !.vertex_colors = records(Color)]
       ELSE IF layout = "MorphInfo"
            THEN [doc EXCEPT !.morph_infos =
                     [i \in 1..record_count |-> WithNameText(records(MorphInfo)[i])]]
       ELSE IF layout = "MorphData" THEN [doc EXCEPT !.morph_data = records(MorphData)]
       ELSE doc

\* read: the chunks of the file one after the other; a truncated header or
\* payload and a record size that fits no layout are format errors.
RECURSIVE ReadChunks(_, _)
ReadChunks(bytes, read) ==
    IF bytes = <<>> THEN read
    ELSE IF Len(bytes) < 32 THEN FormatError
    ELSE LET id == TextOf(SubSeq(bytes, 1, 20))
             record_size == ElementValue(SubSeq(bytes, 25, 28), TRUE)
             record_count == ElementValue(SubSeq(bytes, 29, 32), TRUE)
             layout == ChunkLayout(id, record_size)
         IN IF record_size < 0 \/ record_count < 0 THEN FormatError
            ELSE IF record_size * record_count > Len(bytes) - 32 THEN FormatError
            ELSE IF layout = "none" THEN FormatError
            ELSE ReadChunks(
                     SubSeq(bytes, 32 + record_size * record_count + 1, Len(bytes)),
                     [error |-> FALSE,
                      chunk_order |-> Append(read.chunk_order, id),
                      document |-> WithChunk(read.document, layout,
                                             SubSeq(bytes, 33, 32 + record_size * record_count),
                                             record_size, record_count)])

ReadPskFile(bytes) ==
    ReadChunks(bytes, [error |-> FALSE, chunk_order |-> <<>>, document |-> EmptyPsk])

\* The records of the documents, two of every kind; 1065353216 is the
\* c_float 1.0 and 1056964608 the c_float 0.5.  The wedges are on the points
\* 0 and 1 and the faces on the wedges 0 and 1; the materials are 'ab' and a
\* name of 64 bytes; the bones are a root 'r' and a child 'c' of the bone 0;
\* the morph infos are 'm' of one vertex and a name of 64 bytes of none; the
\* material references are 'M' and 'N'.
PointSet == {<< <<0>>, <<0>>, <<0>> >>, << <<1065353216>>, <<0>>, <<1065353216>> >>}
WedgeSet == {<< <<0>>, <<0>>, <<1065353216>>, <<0>> >>, << <<1>>, <<1065353216>>, <<0>>, <<1>> >>}
FaceSet == {<< <<0, 0, 0>>, <<0>>, <<0>>, <<0>> >>, << <<0, 1, 0>>, <<1>>, <<0>>, <<-1>> >>}
MaterialSet ==
    {<< <<97, 98>>, <<0>>, <<0>>, <<0>>, <<0>>, <<0>>, <<0>> >>,
     << [i \in 1..64 |-> 120], <<1>>, <<-1>>, <<0>>, <<0>>, <<0>>, <<0>> >>}
BoneSet ==
    {<< <<114>>, <<0>>, <<1>>, <<-1>>, <<0, 0, 0, 1065353216>>, <<0, 0, 0>>, <<0>>,
        <<1065353216, 1065353216, 1065353216>> >>,
     << <<99>>, <<0>>, <<0>>, <<0>>, <<0, 0, 0, 1065353216>>, <<0, 1065353216, 0>>, <<0>>,
        <<1065353216, 1065353216, 1065353216>> >>}
WeightSet == {<< <<1065353216>>, <<0>>, <<0>> >>, << <<1056964608>>, <<1>>, <<0>> >>}
ExtraUvSet == {<< <<0>>, <<1065353216>> >>, << <<1056964608>>, <<0>> >>}
ColorSet == {<< <<255>>, <<0>>, <<128>>, <<255>> >>, << <<0>>, <<0>>, <<0>>, <<0>> >>}
VertexNormalSet == {<< <<0>>, <<0>>, <<1065353216>> >>, << <<1065353216>>, <<0>>, <<0>> >>}
MorphInfoSet == {<< <<109>>, <<1>> >>, << [i \in 1..64 |-> 121], <<0>> >>}
MorphDataSet ==
    {<< <<1065353216, 0, 0>>, <<0, 0, 1065353216>>, <<0>> >>,
     << <<0, 1056964608, 0>>, <<0, 0, 0>>, <<1>> >>}
MaterialReferenceSet == {<<77>>, <<78>>}

\* The sequences over a set of records of a length up to n.
RecordLists(records, n) == UNION {[1..k -> records] : k \in 0..n}

\* The sum of the vertex counts of a list of morph infos.
RECURSIVE VertexCountSum(_)
VertexCountSum(morph_infos) ==
    IF morph_infos = <<>> THEN 0
    ELSE Head(morph_infos)[2][1] + VertexCountSum(Tail(morph_infos))

\* A valid document: every wedge is on a point and every face on wedges of
\* the document, one bone is the root (parent_index -1) and the parent of
\* every other bone is a bone of the document, and the morph data are the
\* vertices of the morph infos.
IsValidDocument(doc) ==
    /\ \A i \in 1..Len(doc.wedges) : doc.wedges[i][1][1] < Len(doc.points)
    /\ \A i \in 1..Len(doc.faces) : \A j \in 1..3 : doc.faces[i][1][j] < Len(doc.wedges)
    /\ Cardinality({i \in 1..Len(doc.bones) : doc.bones[i][4][1] = -1}) = 1
    /\ \A i \in 1..Len(doc.bones) : doc.bones[i][4][1] \in -1..(Len(doc.bones) - 1)
    /\ Len(doc.morph_data) = VertexCountSum(doc.morph_infos)

\* A document with two points, two wedges, a face, a material, a weight, a
\* bone, an extra UV, a vertex color and a morph of one vertex.
BasePsk ==
    [points |-> << << <<0>>, <<0>>, <<0>> >>, << <<1065353216>>, <<0>>, <<1065353216>> >> >>,
     wedges |-> << << <<0>>, <<0>>, <<1065353216>>, <<0>> >>,
                   << <<1>>, <<1065353216>>, <<0>>, <<1>> >> >>,
     faces |-> << << <<0, 1, 0>>, <<1>>, <<0>>, <<-1>> >> >>,
     materials |-> << << <<97, 98>>, <<0>>, <<0>>, <<0>>, <<0>>, <<0>>, <<0>> >> >>,
     weights |-> << << <<1065353216>>, <<0>>, <<0>> >> >>,
     bones |-> << << <<114>>, <<0>>, <<1>>, <<-1>>, <<0, 0, 0, 1065353216>>, <<0, 0, 0>>,
                     <<0>>, <<1065353216, 1065353216, 1065353216>> >> >>,
     extra_uvs |-> << << <<0>>, <<1065353216>> >> >>,
     vertex_colors |-> << << <<255>>, <<0>>, <<128>>, <<255>> >> >>,
     vertex_normals |-> <<>>,
     morph_infos |-> << << <<109>>, <<1>> >> >>,
     morph_data |-> << << <<1065353216, 0, 0>>, <<0, 0, 1065353216>>, <<0>> >> >>,
     material_references |-> <<>>]

\* The documents: the valid ones among BasePsk with other points and wedges
\* and no face, with other wedges and faces, with other morph infos and
\* morph data, and with one other list, every list of up to MaxCodecRecords
\* records.
PskDocumentSet ==
    LET lists(records) == RecordLists(records, MaxCodecRecords)
    IN {doc \in
           {[BasePsk EXCEPT !.points = p, !.wedges = w, !.faces = <<>>] :
               p \in lists(PointSet), w \in lists(WedgeSet)}
           \cup {[BasePsk EXCEPT !.wedges = w, !.faces = f] :
                    w \in lists(WedgeSet), f \in lists(FaceSet)}
           \cup {[BasePsk EXCEPT !.morph_infos = i, !.morph_data = d] :
                    i \in lists(MorphInfoSet), d \in lists(MorphDataSet)}
           \cup {[BasePsk EXCEPT !.materials = l] : l \in lists(MaterialSet)}
           \cup {[BasePsk EXCEPT !.weights = l] : l \in lists(WeightSet)}
           \cup {[BasePsk EXCEPT !.bones = l] : l \in lists(BoneSet)}
           \cup {[BasePsk EXCEPT !.extra_uvs = l] : l \in lists(ExtraUvSet)}
           \cup {[BasePsk EXCEPT !.vertex_colors = l] : l \in lists(ColorSet)}
           \cup {[BasePsk EXCEPT !.vertex_normals = l] : l \in lists(VertexNormalSet)}
           \cup {[BasePsk EXCEPT !.material_references = l] :
                    l \in lists(MaterialReferenceSet)} :
        IsValidDocument(doc)}

\* A document is about to be written.
CodecInit ==
    /\ psk_document \in PskDocumentSet
    /\ psk_wide \in BOOLEAN
    /\ psk_file = <<>>
    /\ psk_read = <<>>
    /\ codec_pc = "write"
    /\ ImportAtRest
    /\ ExportAtRest
    /\ FpsAtRest
    /\ OpAtRest
    /\ PskAtRest
    /\ ConvertAtRest
    /\ MatrixAtRest
    /\ SequencesAtRest
    /\ ChunkAtRest
    /\ CursorAtRest
    /\ LoadAtRest

\* write(D)
WritePsk ==
    /\ codec_pc = "write"
    /\ psk_file' = WritePskDocument(psk_document, psk_wide)
    /\ codec_pc' = "read"
    /\ UNCHANGED <<psk_document, psk_wide, psk_read>>
    /\ UNCHANGED <<import_vars, export_vars, fps_vars, op_vars, psk_vars, convert_vars,
                   matrix_vars, seq_vars, chunk_vars, cursor_vars, load_vars>>

\* read(bytes)
ReadPsk ==
    /\ codec_pc = "read"
    /\ psk_read' = ReadPskFile(psk_file)
    /\ codec_pc' = "done"
    /\ UNCHANGED <<psk_document, psk_wide, psk_file>>
    /\ UNCHANGED <<import_vars, export_vars, fps_vars, op_vars, psk_vars, convert_vars,
                   matrix_vars, seq_vars, chunk_vars, cursor_vars, load_vars>>

CodecNext == WritePsk \/ ReadPsk

SpecCodec == CodecInit /\ [][CodecNext]_vars

-----------------------------------------------------------------------------
(* Properties of the bone mapping of import_psa. *)

\* The PSA bone indices the mapping loop has gone through.
ScannedBones == 0..(psa_bone_index - 1)

\* The decoded name of PSA bone p.
SourceName(p) == Decode1252(psa_bones[p + 1])

\* Equality of two names under a mapping mode.
NameEquals(a, b, mode) ==
    IF mode = "CASE_INSENSITIVE" THEN Lower(a) = Lower(b) ELSE a = b

\* The armature bone indices whose name equals the name of PSA bone p.
MatchingTargets(p) ==
    {a \in 0..(Len(armature_bone_names) - 1) :
        NameEquals(armature_bone_names[a + 1], SourceName(p), bone_mapping_mode)}

\* The least element of a non-empty set of integers.
Least(S) == CHOOSE x \in S : \A y \in S : x <= y

\* The first armature bone that matches PSA bone p, or None.
FirstMatch(p) == IF MatchingTargets(p) = {} THEN None ELSE Least(MatchingTargets(p))

\* The earliest scanned PSA bone whose first match is armature bone a.
FirstClaimant(a) == Least({q \in ScannedBones : FirstMatch(q) = a})

\* The positions of the collision entries recorded for PSA bone p.
CollisionsOf(p) == {i \in 1..Len(duplicate_mappings) : duplicate_mappings[i][1] = p}

\* The mapping stage of import_psa is over and it did not raise.
MappingReported == pc \in {"sequences", "done"}

\* The warnings of one kind in result.warnings.
WarningsOfKind(kind) == {i \in 1..Len(warnings) : warnings[i].kind = kind}

\* C1: every mapped PSA bone is recorded as mapped to the lowest armature
\* index whose name equals its name under the selected mapping mode.
C1_FirstMatchWins ==
    \A p \in DOMAIN psa_to_armature_bone_indices :
        psa_to_armature_bone_indices[p] = FirstMatch(p)

\* C2: a scanned PSA bone whose first match was claimed by an earlier PSA
\* bone is not in the mapping and has exactly one collision entry (its index,
\* the armature index, the first claimant's index), the first claimant keeps
\* its mapping, every other matched bone is mapped without a collision entry,
\* and no armature bone is the target of two PSA bones.
C2_Collisions ==
    /\ \A p \in ScannedBones :
          LET a == FirstMatch(p)
          IN a # None =>
                IF FirstClaimant(a) < p
                THEN /\ p \notin DOMAIN psa_to_armature_bone_indices
                     /\ Cardinality(CollisionsOf(p)) = 1
                     /\ \A i \in CollisionsOf(p) :
                           duplicate_mappings[i] = <<p, a, FirstClaimant(a)>>
                     /\ FirstClaimant(a) \in DOMAIN psa_to_armature_bone_indices
                     /\ armature_to_psa_bone_indices[a] = FirstClaimant(a)
                ELSE /\ p \in DOMAIN psa_to_armature_bone_indices
                     /\ CollisionsOf(p) = {}
    /\ \A p, q \in DOMAIN psa_to_armature_bone_indices :
          p # q => psa_to_armature_bone_indices[p] # psa_to_armature_bone_indices[q]
    /\ \A i \in 1..Len(duplicate_mappings) : duplicate_mappings[i][1] \in ScannedBones

\* Witness of C2: sources [Root, Head, head] onto targets [Root, Head], case
\* insensitively, have been imported: two bones mapped, one collision for
\* 'head', nothing missing.
C2_Witness ==
    /\ pc = "done"
    /\ psa_bones = <<ChRoot, ChHead, ChHeadLower>>
    /\ armature_bone_names = <<ChRoot, ChHead>>
    /\ bone_mapping_mode = "CASE_INSENSITIVE"
    /\ DOMAIN psa_to_armature_bone_indices = {0, 1}
    /\ psa_to_armature_bone_indices[0] = 0
    /\ psa_to_armature_bone_indices[1] = 1
    /\ duplicate_mappings = << <<2, 1, 1>> >>
    /\ WarningsOfKind("missing") = {}

\* C3: in CASE_INSENSITIVE mode import_psa does not raise in the mapping
\* loop, and a scanned PSA bone whose name differs only in letter case from
\* the armature bone it first matches, and that is the first to match it, is
\* mapped to that armature bone.
C3_CaseInsensitiveMaps ==
    bone_mapping_mode = "CASE_INSENSITIVE" =>
        /\ pc # "raised"
        /\ \A p \in ScannedBones :
              LET a == FirstMatch(p)
              IN (a # None /\ FirstClaimant(a) = p
                    /\ armature_bone_names[a + 1] # SourceName(p)) =>
                 /\ p \in DOMAIN psa_to_armature_bone_indices
                 /\ psa_to_armature_bone_indices[p] = a

\* The names of the PSA bones that match no armature bone.
UnmatchedSourceNames == {SourceName(p) : p \in {q \in ScannedBones : FirstMatch(q) = None}}

\* C4: once the mapping is reported, the bones reported as missing are
\* exactly the names of the PSA bones that match no armature bone name under
\* the mapping mode (one warning listing them, none when there is none).
C4_MissingAreUnmatched ==
    MappingReported =>
        /\ missing_bone_names = UnmatchedSourceNames
        /\ IF UnmatchedSourceNames = {}
           THEN WarningsOfKind("missing") = {}
           ELSE /\ Cardinality(WarningsOfKind("missing")) = 1
                /\ \A i \in WarningsOfKind("missing") :
                      /\ Range(warnings[i].names) = UnmatchedSourceNames
                      /\ warnings[i].count = Cardinality(UnmatchedSourceNames)
        /\ \A p \in ScannedBones :
              FirstMatch(p) # None => SourceName(p) \notin missing_bone_names

\* Witness of C4: an import that reported a missing bone and also had a
\* collision on a bone whose own name is not an armature bone name.
C4_Witness ==
    /\ pc = "done"
    /\ WarningsOfKind("missing") # {}
    /\ \E i \in 1..Len(duplicate_mappings) :
          SourceName(duplicate_mappings[i][1]) \notin Range(armature_bone_names)

\* C5 as stated: the collision warning names the later PSA bone and the first
\* claimant by their own source names.
C5_CollisionKeepsSourceName ==
    \A i \in WarningsOfKind("duplicate") :
        /\ warnings[i].psa_bone_name = SourceName(warnings[i].psa_bone_index)
        /\ warnings[i].mapped_psa_bone_name = SourceName(warnings[i].mapped_psa_bone_index)

\* C5, amended: the collision warning names the later PSA bone and the first
\* claimant by the name of the armature bone they matched, which equals their
\* source names under the mapping mode; a PSA bone that matches no armature
\* bone keeps its source name in the name list.
C5_CollisionNamesTarget ==
    /\ \A i \in WarningsOfKind("duplicate") :
          LET w == warnings[i]
          IN /\ w.psa_bone_name = armature_bone_names[w.armature_bone_index + 1]
             /\ w.mapped_psa_bone_name = armature_bone_names[w.armature_bone_index + 1]
             /\ NameEquals(w.psa_bone_name, SourceName(w.psa_bone_index), bone_mapping_mode)
             /\ NameEquals(w.mapped_psa_bone_name, SourceName(w.mapped_psa_bone_index),
                           bone_mapping_mode)
    /\ \A p \in ScannedBones :
          psa_bone_names[p + 1] =
              IF FirstMatch(p) = None THEN SourceName(p)
              ELSE armature_bone_names[FirstMatch(p) + 1]

\* Witness of C5: a collision warning whose PSA bone is spelled differently
\* from the armature bone it names.
C5_Witness ==
    \E i \in WarningsOfKind("duplicate") :
        warnings[i].psa_bone_name # SourceName(warnings[i].psa_bone_index)

\* The inputs give a collision or an unmapped bone: some PSA bone matches no
\* armature bone, or two PSA bones first match the same armature bone.
InputsGiveMappingWarnings ==
    LET all == 0..(Len(psa_bones) - 1)
    IN \/ \E p \in all : FirstMatch(p) = None
       \/ \E p, q \in all : p # q /\ FirstMatch(p) # None /\ FirstMatch(p) = FirstMatch(q)

\* The PSA bones that neither collide nor are unmatched.
CleanlyMappedBones ==
    {p \in 0..(Len(psa_bones) - 1) :
        FirstMatch(p) # None /\ \A q \in 0..(p - 1) : FirstMatch(q) # FirstMatch(p)}

\* The name import_psa asks for the action of the sequence at position i.
RequestedActionName(i) == import_options.action_name_prefix \o sequence_names[i]

\* C6: with inputs that give collisions or unmapped bones import_psa never
\* raises, and when it returns the warnings are in the result, every
\* requested sequence has its action (under the requested name, or that name
\* with the suffix of a new data-block), and the actions whose keyframes are
\* written have f-curves for the cleanly mapped bones only.
C6_WarningsNeverAbort ==
    InputsGiveMappingWarnings =>
        /\ pc # "raised"
        /\ pc = "done" =>
              /\ returned
              /\ Len(warnings) > 0
              /\ Len(actions) = Len(sequence_names)
              /\ \A i \in 1..Len(actions) :
                    /\ \/ actions[i].name = RequestedActionName(i)
                       \/ \E n \in 1..9 :
                             actions[i].name = RequestedActionName(i) \o NameSuffix(n)
                    /\ actions[i].fcurve_groups =
                          IF import_options.should_write_keyframes
                          THEN {armature_bone_names[FirstMatch(p) + 1] :
                                   p \in CleanlyMappedBones}
                          ELSE {}

-----------------------------------------------------------------------------
(* Properties of the sequences of update_actions_and_timeline_markers. *)

\* The lists have been populated from a scene that has animation data.
Listed == export_pc = "listed" /\ has_animation_data

\* The (name, frame_start, frame_end) of the items of a list.
Triples(items) ==
    [i \in 1..Len(items) |-> <<items[i].name, items[i].frame_start, items[i].frame_end>>]

\* The positions of the '/' of a name.
SlashPositions(name) == {k \in 1..Len(name) : name[k] = ChSlash}

\* The name has the form A/B: one '/', with a non-empty part on each side.
IsSplitForm(name) ==
    /\ Cardinality(SlashPositions(name)) = 1
    /\ SlashPositions(name) \cap {1, Len(name)} = {}

\* The greatest element of a non-empty set of integers.
Greatest(S) == CHOOSE x \in S : \A y \in S : y <= x

\* The parts of a name before and after its '/' at position k.
PartBefore(name, k) == SubSeq(name, 1, k - 1)
PartAfter(name, k) == SubSeq(name, k + 1, Len(name))

\* The two sequences of a name split at k over the range (frame_start, frame_end).
SplitAt(name, k, frame_start, frame_end) ==
    << <<PartBefore(name, k), frame_start, frame_end>>,
       <<PartAfter(name, k), frame_end, frame_start>> >>

\* The only action of the scene, and its pose markers in frame order.
TheAction == data_actions[1]
SortedPoseMarkers == SortedByFrame(TheAction.pose_markers)

\* The action gives items: it is an action of the armature.
ActionIsListed == Listed /\ is_action_for_armature(ExportArmatureBones, TheAction)

\* The items of the action itself: the items of the list that are not from a
\* pose marker.
OwnItems == SelectSeq(action_list, LAMBDA item : ~item.is_pose_marker)

\* The items of the pose marker at 0-based position i of the frame order: the
\* items of the list between those of the markers before and after it.
PoseMarkerItems(i) ==
    SubSeq(action_list,
           Len(action_list) - Len(PoseMarkerItemsFrom(0, TheAction, SortedPoseMarkers, i)) + 1,
           Len(action_list) - Len(PoseMarkerItemsFrom(0, TheAction, SortedPoseMarkers, i + 1)))

\* The range of the pose marker at 0-based position i of the frame order: from
\* its frame to the frame of the next marker, or to the last frame of the
\* action.
PoseMarkerStart(i) == SortedPoseMarkers[i + 1].frame
PoseMarkerEnd(i) ==
    IF i + 1 < Len(SortedPoseMarkers) THEN SortedPoseMarkers[i + 2].frame
    ELSE TheAction.frame_range[2]

\* The pose markers that give items: those whose name does not begin with '#'.
ListedPoseMarkers ==
    {i \in 0..(Len(SortedPoseMarkers) - 1) : ~StartsWithHash(SortedPoseMarkers[i + 1].name)}

\* C7: an action or a pose marker whose name has the form A/B gives exactly
\* two sequences, (A, frame_start, frame_end) then (B, frame_end, frame_start).
C7_ForwardReverseSplit ==
    ActionIsListed =>
        /\ (~StartsWithHash(TheAction.name) /\ IsSplitForm(TheAction.name)) =>
              Triples(OwnItems) =
                  SplitAt(TheAction.name, Greatest(SlashPositions(TheAction.name)),
                          TheAction.frame_range[1], TheAction.frame_range[2])
        /\ \A i \in ListedPoseMarkers :
              LET name == SortedPoseMarkers[i + 1].name
              IN IsSplitForm(name) =>
                    Triples(PoseMarkerItems(i)) =
                        SplitAt(name, Greatest(SlashPositions(name)),
                                PoseMarkerStart(i), PoseMarkerEnd(i))

\* Witness of C7: the action 'Run/RunBack' over the whole frame range of the
\* model has given ('Run', 0, MaxFrame) and ('RunBack', MaxFrame, 0).
C7_Witness ==
    /\ ActionIsListed
    /\ TheAction.name = ChRunRunBack
    /\ TheAction.frame_range = <<0, MaxFrame>>
    /\ Triples(action_list) = << <<ChRun, 0, MaxFrame>>, <<ChRunBack, MaxFrame, 0>> >>

\* C8 as stated: a name that is not of the form A/B gives exactly one
\* sequence, with the unchanged name and the range (frame_start, frame_end).
C8_OtherNamesGiveOne ==
    ActionIsListed =>
        /\ (~StartsWithHash(TheAction.name) /\ ~IsSplitForm(TheAction.name)) =>
              Triples(OwnItems) =
                  << <<TheAction.name, TheAction.frame_range[1], TheAction.frame_range[2]>> >>
        /\ \A i \in ListedPoseMarkers :
              LET name == SortedPoseMarkers[i + 1].name
              IN ~IsSplitForm(name) =>
                    Triples(PoseMarkerItems(i)) =
                        << <<name, PoseMarkerStart(i), PoseMarkerEnd(i)>> >>

\* The positions of the '/' of a name that have a character on each side.
InnerSlashPositions(name) == SlashPositions(name) \ {1, Len(name)}

\* What C8, amended, expects of a name that is not of the form A/B.
OtherNameSequences(name, frame_start, frame_end) ==
    IF InnerSlashPositions(name) = {}
    THEN << <<name, frame_start, frame_end>> >>
    ELSE SplitAt(name, Greatest(InnerSlashPositions(name)), frame_start, frame_end)

\* C8, amended: a name without a '/' that has a character on each side (no
\* '/', or only a leading or a trailing one) gives exactly one sequence, with
\* the unchanged name and the range (frame_start, frame_end); any other name
\* with more than one '/' gives two sequences, split at its last '/' that has
\* a character on each side.
C8_NoInnerSlashGivesOne ==
    ActionIsListed =>
        /\ (~StartsWithHash(TheAction.name) /\ ~IsSplitForm(TheAction.name)) =>
              Triples(OwnItems) =
                  OtherNameSequences(TheAction.name, TheAction.frame_range[1],
                                     TheAction.frame_range[2])
        /\ \A i \in ListedPoseMarkers :
              LET name == SortedPoseMarkers[i + 1].name
              IN ~IsSplitForm(name) =>
                    Triples(PoseMarkerItems(i)) =
                        OtherNameSequences(name, PoseMarkerStart(i), PoseMarkerEnd(i))

\* Witness of C8: the action 'A/A/A' has given ('A/A', start, end) and
\* ('A', end, start).
C8_Witness ==
    /\ ActionIsListed
    /\ TheAction.name = <<65, ChSlash, 65, ChSlash, 65>>
    /\ Len(action_list) = 2
    /\ action_list[1].name = <<65, ChSlash, 65>>
    /\ action_list[2].name = <<65>>
    /\ action_list[2].frame_start = TheAction.frame_range[2]

-----------------------------------------------------------------------------
(* Properties of the timeline marker ranges. *)

\* The markers that come after marker i in frame order; markers at the same
\* frame keep the order of the list.
MarkersAfter(i) ==
    {j \in 1..Len(timeline_markers) :
        \/ timeline_markers[j].frame > timeline_markers[i].frame
        \/ timeline_markers[j].frame = timeline_markers[i].frame /\ j > i}

\* The frame of the next marker after marker i in frame order.
NextMarkerFrame(i) == Least({timeline_markers[j].frame : j \in MarkersAfter(i)})

\* The items of the marker list that carry the name of marker i.
MarkerItems(i) ==
    SelectSeq(marker_list, LAMBDA item : item.name = timeline_markers[i].name)

\* The timeline markers that may be listed: the name does not begin with '#'.
ListableMarkers ==
    {i \in 1..Len(timeline_markers) : ~StartsWithHash(timeline_markers[i].name)}

\* The bounds of a non-empty list of strips.
StripStarts(strips) == {strips[k].frame_start : k \in 1..Len(strips)}
StripEnds(strips) == {strips[k].frame_end : k \in 1..Len(strips)}

\* The strips that overlap the window of marker i and its next marker.
StripsInWindow(i) ==
    get_nla_strips_in_timeframe(nla_tracks, timeline_markers[i].frame, NextMarkerFrame(i))

\* C9: a marker at frame m with a next marker at frame n is listed with the
\* range (max(m, least strip start), min(n, greatest strip end)) over the
\* strips that overlap [m, n], and with the range (m, m) when no strip does.
C9_MarkerWithSuccessor ==
    Listed =>
        \A i \in ListableMarkers :
            MarkersAfter(i) # {} =>
                LET m == timeline_markers[i].frame
                    n == NextMarkerFrame(i)
                    strips == StripsInWindow(i)
                IN Triples(MarkerItems(i)) =
                      IF Len(strips) > 0
                      THEN << <<timeline_markers[i].name,
                                Greatest({m, Least(StripStarts(strips))}),
                                Least({n, Greatest(StripEnds(strips))})>> >>
                      ELSE << <<timeline_markers[i].name, m, m>> >>

\* Witness of C9: a listed marker whose range starts after its own frame
\* because of the strips, and another whose window has no strip.
C9_Witness ==
    /\ Listed
    /\ \E i \in ListableMarkers :
          /\ MarkersAfter(i) # {}
          /\ Len(StripsInWindow(i)) > 0
          /\ Len(MarkerItems(i)) = 1
          /\ MarkerItems(i)[1].frame_start > timeline_markers[i].frame
          /\ MarkerItems(i)[1].frame_end > MarkerItems(i)[1].frame_start
    /\ \E i \in ListableMarkers :
          /\ MarkersAfter(i) # {}
          /\ Len(StripsInWindow(i)) = 0
          /\ Len(MarkerItems(i)) = 1

\* The strips of the tracks that are not muted.
UnmutedStrips == SelectSeq(StripsOfTracks(nla_tracks), LAMBDA strip : ~strip.mute)

\* The greatest end of the strips of the tracks that are not muted; 0, the
\* value the code starts from, when there is no such strip.
GreatestUnmutedEnd ==
    IF Len(UnmutedStrips) = 0 THEN 0 ELSE Greatest(StripEnds(UnmutedStrips))

\* C10: the marker without a next marker is listed with frame_start its own
\* frame and frame_end the greatest end of the strips of the tracks that are
\* not muted, whatever the strips of the muted tracks; it is not listed when
\* that end is before its frame.
C10_LastMarker ==
    Listed =>
        \A i \in ListableMarkers :
            MarkersAfter(i) = {} =>
                Triples(MarkerItems(i)) =
                    IF timeline_markers[i].frame <= GreatestUnmutedEnd
                    THEN << <<timeline_markers[i].name, timeline_markers[i].frame,
                              GreatestUnmutedEnd>> >>
                    ELSE <<>>

\* Witness of C10: the last marker is listed up to the end of a strip that is
\* not muted, while a muted track has a strip that ends later.
C10_Witness ==
    /\ Listed
    /\ \E i \in ListableMarkers :
          /\ MarkersAfter(i) = {}
          /\ Len(MarkerItems(i)) = 1
          /\ Len(UnmutedStrips) > 0
          /\ MarkerItems(i)[1].frame_end = Greatest(StripEnds(UnmutedStrips))
          /\ \E k \in 1..Len(StripsOfTracks(nla_tracks)) :
                /\ StripsOfTracks(nla_tracks)[k].mute
                /\ StripsOfTracks(nla_tracks)[k].frame_end > MarkerItems(i)[1].frame_end

-----------------------------------------------------------------------------
(* Properties of the order of the timeline markers. *)

\* The range of a marker at frame m whose next marker is at frame n.
RangeWithNext(m, n) ==
    LET strips == get_nla_strips_in_timeframe(nla_tracks, m, n)
    IN IF Len(strips) > 0
       THEN <<Greatest({m, Least(StripStarts(strips))}),
              Least({n, Greatest(StripEnds(strips))})>>
       ELSE <<m, m>>

\* The triples listed for marker i when its range is r: none when r starts
\* after its end.
ListedAs(i, r) ==
    IF r[1] <= r[2] THEN << <<timeline_markers[i].name, r[1], r[2]>> >> ELSE <<>>

\* The frames of the markers that lie after the frame of marker i.
GreaterFrames(i) ==
    {timeline_markers[j].frame : j \in {k \in 1..Len(timeline_markers) :
                                          timeline_markers[k].frame > timeline_markers[i].frame}}

\* The triples listed for marker i when its successor is the marker at the
\* next greater frame.
ListedByNextGreater(i) ==
    ListedAs(i, IF GreaterFrames(i) # {}
                THEN RangeWithNext(timeline_markers[i].frame, Least(GreaterFrames(i)))
                ELSE <<timeline_markers[i].frame, GreatestUnmutedEnd>>)

\* The triples listed for marker i when its successor is the next marker of
\* the stable ascending sort: a marker at the same frame that is supplied
\* later comes after it.
ListedByFrameOrder(i) ==
    ListedAs(i, IF MarkersAfter(i) # {}
                THEN RangeWithNext(timeline_markers[i].frame, NextMarkerFrame(i))
                ELSE <<timeline_markers[i].frame, GreatestUnmutedEnd>>)

\* No two markers are at the same frame.
DistinctFrames ==
    \A i, j \in 1..Len(timeline_markers) :
        timeline_markers[i].frame = timeline_markers[j].frame => i = j

\* The strips that overlap the window [m, n] bound it: they do not tighten
\* the range of a marker at m whose next marker is at n.
Untightened(m, n) ==
    LET strips == get_nla_strips_in_timeframe(nla_tracks, m, n)
    IN /\ Len(strips) > 0
       /\ Least(StripStarts(strips)) <= m
       /\ Greatest(StripEnds(strips)) >= n

\* The markers are at the frames 0, 30 and 60, in some order, and the strips
\* put no other constraint on their ranges.
IsWorkedExample ==
    /\ Len(timeline_markers) = 3
    /\ {timeline_markers[i].frame : i \in 1..Len(timeline_markers)} = {0, 30, 60}
    /\ Untightened(0, 30)
    /\ Untightened(30, 60)
    /\ GreatestUnmutedEnd >= 60

\* The ranges of the marker list, as a set.
ListedRanges ==
    {<<marker_list[k].frame_start, marker_list[k].frame_end>> : k \in 1..Len(marker_list)}

\* The worked example: the ranges are (0,30), (30,60) and (60, the greatest
\* end of the strips that are not muted).
WorkedExampleHolds ==
    (Listed /\ IsWorkedExample) =>
        /\ Len(marker_list) = 3
        /\ ListedRanges = {<<0, 30>>, <<30, 60>>, <<60, GreatestUnmutedEnd>>}
        /\ \A k \in 1..Len(marker_list) :
              marker_list[k].frame_start = MarkerNamed(timeline_markers, marker_list[k].name).frame

\* C11 as stated: in whatever order the markers are supplied, the successor
\* of every marker is the marker at the next greater frame, and the markers
\* at 0, 30 and 60 give the ranges (0,30), (30,60) and (60, maxSegmentEnd).
C11_SuccessorIsNextGreater ==
    /\ Listed => \A i \in ListableMarkers : Triples(MarkerItems(i)) = ListedByNextGreater(i)
    /\ WorkedExampleHolds

\* C11, amended: the successor of a marker is the next marker of the stable
\* ascending sort by frame, so a marker supplied before another marker at
\* the same frame has that marker as its successor; when no two markers
\* share a frame the successor is the marker at the next greater frame in
\* whatever order the markers are supplied, and the markers at 0, 30 and 60
\* give (0,30), (30,60) and (60, maxSegmentEnd) when the strips bound each
\* window and a strip that is not muted ends at 60 or later.
C11_SuccessorInFrameOrder ==
    /\ Listed => \A i \in ListableMarkers : Triples(MarkerItems(i)) = ListedByFrameOrder(i)
    /\ (Listed /\ DistinctFrames) =>
           \A i \in ListableMarkers : Triples(MarkerItems(i)) = ListedByNextGreater(i)
    /\ WorkedExampleHolds

\* Witness of C11: the worked example with the marker at 60 supplied first
\* and the marker at 0 supplied last.
C11_Witness ==
    /\ Listed
    /\ IsWorkedExample
    /\ timeline_markers[1].frame = 60
    /\ timeline_markers[3].frame = 0
    /\ Triples(marker_list) = << <<timeline_markers[1].name, 60, GreatestUnmutedEnd>>,
                                 <<timeline_markers[2].name, 30, 60>>,
                                 <<timeline_markers[3].name, 0, 30>> >>
    /\ GreatestUnmutedEnd = 90

-----------------------------------------------------------------------------
(* Properties of the dropped markers. *)

\* The range computed for marker i before the test of frame_start against
\* frame_end.
ComputedRange(i) ==
    IF MarkersAfter(i) # {}
    THEN RangeWithNext(timeline_markers[i].frame, NextMarkerFrame(i))
    ELSE <<timeline_markers[i].frame, GreatestUnmutedEnd>>

\* The dict get_timeline_marker_sequence_frame_ranges returns for the
\* timeline markers of the scene.
ReturnedRanges ==
    get_timeline_marker_sequence_frame_ranges(
        timeline_markers, nla_tracks,
        [i \in 1..Len(timeline_markers) |-> timeline_markers[i].name])

\* C12: a timeline marker has a range in the returned dict exactly when its
\* computed frame_start <= frame_end; every returned range and every item of
\* the marker list has frame_start <= frame_end, and a marker whose name
\* does not begin with '#' is listed exactly when it has a range.
C12_RangeIffStartNotAfterEnd ==
    Listed =>
        /\ \A i \in 1..Len(timeline_markers) :
              /\ timeline_markers[i].name \in DOMAIN ReturnedRanges
                     <=> ComputedRange(i)[1] <= ComputedRange(i)[2]
              /\ timeline_markers[i].name \in DOMAIN ReturnedRanges
                     => ReturnedRanges[timeline_markers[i].name] = ComputedRange(i)
        /\ \A n \in DOMAIN ReturnedRanges : ReturnedRanges[n][1] <= ReturnedRanges[n][2]
        /\ \A k \in 1..Len(marker_list) : marker_list[k].frame_start <= marker_list[k].frame_end
        /\ \A i \in ListableMarkers :
              Len(MarkerItems(i)) = (IF ComputedRange(i)[1] <= ComputedRange(i)[2] THEN 1 ELSE 0)

\* Witness of C12: one marker is listed and another, whose frame is after
\* the end of every strip that is not muted, is dropped.
C12_Witness ==
    /\ Listed
    /\ \E i, j \in ListableMarkers :
          /\ ComputedRange(i)[1] > ComputedRange(i)[2]
          /\ MarkerItems(i) = <<>>
          /\ timeline_markers[i].name \notin DOMAIN ReturnedRanges
          /\ Len(MarkerItems(j)) = 1
          /\ MarkerItems(j)[1].frame_start < MarkerItems(j)[1].frame_end

-----------------------------------------------------------------------------
(* Properties of the reserved prefix. *)

\* The name begins with the reserved prefix character '#'.
IsReserved(name) == name # <<>> /\ Head(name) = 35

\* The number of sequences a name gives: two when it has a '/' with a
\* character on each side, else one.
SequenceCount(name) == IF InnerSlashPositions(name) # {} THEN 2 ELSE 1

\* The items of the action list that are from a pose marker.
PoseItems == SelectSeq(action_list, LAMBDA item : item.is_pose_marker)

\* The pose markers of the action whose name is not reserved.
FreePoseMarkers ==
    {i \in 1..Len(TheAction.pose_markers) : ~IsReserved(TheAction.pose_markers[i].name)}

\* The item carries the name, or a part of the name, of the pose marker and
\* starts or ends at its frame.
IsFromPoseMarker(item, pose_marker) ==
    /\ \/ item.name = pose_marker.name
       \/ \E k \in InnerSlashPositions(pose_marker.name) :
             item.name \in {PartBefore(pose_marker.name, k), PartAfter(pose_marker.name, k)}
    /\ pose_marker.frame \in {item.frame_start, item.frame_end}

\* C13: no item of the action list is from an action whose name begins with
\* '#' or from a pose marker whose name begins with '#', and no item of the
\* marker list is from a timeline marker whose name begins with '#'; the
\* other actions, pose markers and listed timeline markers give their items.
C13_ReservedPrefixExcluded ==
    Listed =>
        /\ Len(OwnItems) = (IF IsReserved(TheAction.name) THEN 0 ELSE SequenceCount(TheAction.name))
        /\ Len(PoseItems) =
              Cardinality(FreePoseMarkers)
              + Cardinality({i \in FreePoseMarkers :
                                SequenceCount(TheAction.pose_markers[i].name) = 2})
        /\ \A k \in 1..Len(PoseItems) :
              \E i \in FreePoseMarkers : IsFromPoseMarker(PoseItems[k], TheAction.pose_markers[i])
        /\ \A i \in 1..Len(timeline_markers) :
              IsReserved(timeline_markers[i].name) => MarkerItems(i) = <<>>
        /\ \A k \in 1..Len(marker_list) :
              \E i \in 1..Len(timeline_markers) :
                  /\ ~IsReserved(timeline_markers[i].name)
                  /\ marker_list[k].name = timeline_markers[i].name

\* Witness of C13: an action named '#A' gives no item of its own while its
\* pose marker 'A/#A' gives the items 'A' and '#A' and its pose marker '#A'
\* gives none; the timeline marker '#M' has a range and is not listed while
\* another timeline marker is.
C13_Witness ==
    /\ Listed
    /\ IsReserved(TheAction.name)
    /\ OwnItems = <<>>
    /\ \E i, j \in 1..Len(TheAction.pose_markers) :
          /\ IsReserved(TheAction.pose_markers[i].name)
          /\ TheAction.pose_markers[j].name = <<65, 47, 35, 65>>
    /\ Len(PoseItems) = 2
    /\ IsReserved(PoseItems[2].name)
    /\ \E i \in 1..Len(timeline_markers) :
          /\ IsReserved(timeline_markers[i].name)
          /\ timeline_markers[i].name \in DOMAIN ReturnedRanges
    /\ Len(marker_list) > 0

-----------------------------------------------------------------------------
(* Properties of get_sequence_fps. *)

\* The numeric 'psa_sequence_fps' values among the contributing actions.
NumericFpsValues ==
    {fps_actions[i].value :
        i \in {k \in 1..Len(fps_actions) :
                  fps_actions[k].type \in {"int", "float"}}}

\* C14: the rate returned is the scene rate for SCENE, the custom rate for
\* CUSTOM and, for ACTION_METADATA, the least numeric 'psa_sequence_fps'
\* value among the actions, or the scene rate when no action has one; it is
\* a function of the source, the two rates and the actions alone.
C14_FpsResolution ==
    /\ fps_pc = "returned" =>
          /\ fps_source = "SCENE" => fps_result = scene_fps
          /\ fps_source = "CUSTOM" => fps_result = fps_custom
          /\ (fps_source = "ACTION_METADATA" /\ NumericFpsValues # {}) =>
                 fps_result = Least(NumericFpsValues)
          /\ (fps_source = "ACTION_METADATA" /\ NumericFpsValues = {}) =>
                 fps_result = scene_fps
    /\ fps_source \in {"SCENE", "CUSTOM", "ACTION_METADATA"} => fps_pc # "raised"

\* Witness of C14: with ACTION_METADATA, two actions with different numeric
\* values and the least value, which is neither the scene rate nor the
\* custom rate, is returned.
C14_Witness ==
    /\ fps_pc = "returned"
    /\ fps_source = "ACTION_METADATA"
    /\ Cardinality(NumericFpsValues) = 2
    /\ fps_result = Least(NumericFpsValues)
    /\ fps_result \notin {scene_fps, fps_custom}

-----------------------------------------------------------------------------
(* Properties of the execute methods. *)

\* The list the PSA export takes its sequences from.
ActiveSourceList ==
    IF sequence_source = "ACTIONS" THEN action_list ELSE marker_list

\* No sequence is selected: the list of the operator is empty or every item
\* of it has is_selected false.
NoSequenceSelected ==
    \/ /\ operator = "PSA_OT_import"
       /\ \A i \in 1..Len(sequence_list) : ~sequence_list[i].is_selected
    \/ /\ operator = "PSA_OT_export"
       /\ sequence_source \in {"ACTIONS", "TIMELINE_MARKERS"}
       /\ \A i \in 1..Len(ActiveSourceList) : ~ActiveSourceList[i].is_selected

\* C15: when no sequence is selected, the execute of the PSA export and of
\* the PSA import never calls the builder, the importer or the writer,
\* creates no action, and ends with an error or CANCELLED.
C15_NoSequenceSelectedFails ==
    NoSequenceSelected =>
        /\ ~builder_called
        /\ ~importer_called
        /\ ~writer_called
        /\ actions = <<>>
        /\ op_pc = "done" =>
              op_result \in {"CANCELLED", "RuntimeError", "OSError", "AttributeError"}

\* The build has raised its RuntimeError.
BuildHasRaised == builder_called /\ document = "none"

\* C16: in the PSA export and the PSK export the writer is called only when
\* the build has returned the document; when the build has raised, the
\* operator has reported the error and returned CANCELLED, and the writer is
\* not called.
C16_WriteOnlyAfterBuild ==
    operator \in {"PSA_OT_export", "PSK_OT_export"} =>
        /\ writer_called => (builder_called /\ document = "built")
        /\ op_pc = "write" => document = "built"
        /\ BuildHasRaised =>
              /\ ~writer_called
              /\ op_pc = "done"
              /\ op_result = "CANCELLED"
              /\ reports # <<>>
              /\ reports[Len(reports)] = "ERROR_INVALID_CONTEXT"

\* Witness of C16: the build of the PSA export has raised with sequences to
\* export, and the writer has not been called.
C16_Witness ==
    /\ operator = "PSA_OT_export"
    /\ export_sequences # <<>>
    /\ BuildHasRaised
    /\ op_result = "CANCELLED"
    /\ ~writer_called

-----------------------------------------------------------------------------
(* Properties of populate_material_list. *)

\* The material slots of all mesh objects, in the order they are looked at.
RECURSIVE AllSlotsFrom(_)
AllSlotsFrom(k) ==
    IF k > Len(mesh_objects) THEN <<>> ELSE mesh_objects[k] \o AllSlotsFrom(k + 1)
AllSlots == AllSlotsFrom(1)

\* A material slot of a mesh object is empty.
HasEmptySlot == \E i \in 1..Len(AllSlots) : AllSlots[i].is_none

\* The position of the first slot that holds the material of that name.
FirstSlotOf(name) == Least({i \in 1..Len(AllSlots) : AllSlots[i].name = name})

\* PSK_OT_export.invoke has returned, with input objects.
Invoked == op_pc = "done" /\ operator = "PSK_OT_export" /\ input_objects_found

\* C17: with an empty material slot the invoke of the PSK export reports the
\* error and returns CANCELLED without the file selector; without one, the
\* material list holds the name of every material of the slots exactly once,
\* in the order of their first slots, and every item's index is its position.
C17_EmptySlotRejected ==
    Invoked =>
        /\ HasEmptySlot =>
              /\ op_result = "CANCELLED"
              /\ ~fileselect_added
              /\ reports = <<"ERROR_INVALID_CONTEXT">>
        /\ ~HasEmptySlot =>
              /\ op_result = "RUNNING_MODAL"
              /\ fileselect_added
              /\ {material_list[i].material_name : i \in 1..Len(material_list)}
                     = {AllSlots[i].name : i \in 1..Len(AllSlots)}
              /\ \A i, j \in 1..Len(material_list) :
                    i < j => FirstSlotOf(material_list[i].material_name)
                                 < FirstSlotOf(material_list[j].material_name)
              /\ \A i \in 1..Len(material_list) : material_list[i].index = i - 1

\* Witness of C17: two mesh objects that share a material give each name
\* once, 'b' before 'a', where the list of the earlier invoke is replaced.
C17_Witness ==
    /\ Invoked
    /\ ~HasEmptySlot
    /\ Len(mesh_objects) = 2
    /\ Len(AllSlots) = 4
    /\ AllSlots[1].name = <<98>>
    /\ AllSlots[3].name = <<98>>
    /\ material_list = << [material_name |-> <<98>>, index |-> 0],
                          [material_name |-> <<97>>, index |-> 1] >>
    /\ fileselect_added

-----------------------------------------------------------------------------
(* Properties of _calculate_fcurve_data and of the bind pose. *)

\* The key has been converted.
Converted == convert_pc = "converted"

\* The rotation and the location of a key or of converted key data.
RotationOf(data) == <<data[1], data[2], data[3], data[4]>>
LocationOf(data) == <<data[5], data[6], data[7]>>

\* a o b of the conversion formula: the rotation a followed by the rotation
\* b, which is the quaternion product b a.
Compose(a, b) == QuaternionProduct(b, a)

\* delta of the formula: post_rotation composed with the conjugate of the
\* key rotation for a bone without parent, with the key rotation otherwise.
ReferenceDelta(bone, key_rotation) ==
    IF ~bone.has_parent
    THEN Compose(bone.post_quat, Conjugated(key_rotation))
    ELSE Compose(bone.post_quat, key_rotation)

\* local_rotation of the formula: base o conjugate(delta).
ReferenceRotation(bone, key_rotation) ==
    Compose(Compose(bone.post_quat, bone.orig_quat),
            Conjugated(ReferenceDelta(bone, key_rotation)))

\* local_location of the formula.
ReferenceLocation(bone, key_location) ==
    VectorRotate(<<key_location[1] - bone.orig_loc[1],
                   key_location[2] - bone.orig_loc[2],
                   key_location[3] - bone.orig_loc[3]>>,
                 Conjugated(bone.post_quat))

\* Two quaternions of the same rotation: q and -q.
SameRotation(a, b) == a = b \/ a = Negated(b)

\* C18 as stated: the converted key is the local rotation and the local
\* location of the formula, component by component.
C18_EqualsReference ==
    Converted =>
        /\ RotationOf(fcurve_data) = ReferenceRotation(import_bone, RotationOf(key_data))
        /\ LocationOf(fcurve_data) = ReferenceLocation(import_bone, LocationOf(key_data))

\* C18: the local rotation returned by _calculate_fcurve_data is the
\* quaternion (post o orig) o conjugate(delta) of the formula or its
\* negation, which is the same rotation, and the local location is
\* rotate(key_location - orig_location, conjugate(post_rotation)).
C18_EqualsReferenceAsRotation ==
    Converted =>
        /\ SameRotation(RotationOf(fcurve_data),
                        ReferenceRotation(import_bone, RotationOf(key_data)))
        /\ LocationOf(fcurve_data) = ReferenceLocation(import_bone, LocationOf(key_data))

\* Witness of C18: a bone with a parent whose post rotation is not the
\* conjugate of its orig rotation, a key away from the bind pose, and a
\* local rotation that is the negation of the product of the formula.
C18_Witness ==
    /\ Converted
    /\ import_bone.has_parent
    /\ import_bone.post_quat # Conjugated(import_bone.orig_quat)
    /\ import_bone.post_quat # IdentityQuaternion
    /\ import_bone.orig_loc # ZeroVector
    /\ RotationOf(key_data) = <<1, 1, -1, 1>>
    /\ LocationOf(key_data) = <<-MaxCoord, MaxCoord, 0>>
    /\ RotationOf(fcurve_data)
           = Negated(ReferenceRotation(import_bone, RotationOf(key_data)))
    /\ LocationOf(fcurve_data) = ReferenceLocation(import_bone, LocationOf(key_data))
    /\ LocationOf(fcurve_data) # LocationOf(key_data)

\* The key with the rotation or the location replaced.
WithRotation(key, rotation) ==
    <<rotation[1], rotation[2], rotation[3], rotation[4], key[5], key[6], key[7]>>
WithLocation(key, location) ==
    <<key[1], key[2], key[3], key[4], location[1], location[2], location[3]>>

\* The algebraic inverse of the conversion: the key rotation and the key
\* location recovered from the local rotation and the local location.
InverseRotation(bone, local_rotation) ==
    LET world == QuaternionProduct(
                     QuaternionProduct(QuaternionProduct(bone.post_quat, local_rotation),
                                       Conjugated(bone.post_quat)),
                     Conjugated(bone.orig_quat))
    IN IF bone.has_parent THEN Conjugated(world) ELSE world
InverseLocation(bone, local_location) ==
    LET rotated == VectorRotate(local_location, bone.post_quat)
    IN <<rotated[1] + bone.orig_loc[1], rotated[2] + bone.orig_loc[2],
         rotated[3] + bone.orig_loc[3]>>

\* C19 as stated: no other key is converted to the same key data, and the
\* inverse returns the rotation and the location of the key, component by
\* component.
C19_InjectiveInTheSample ==
    Converted =>
        /\ \A rotation \in QuaternionSet :
              RotationOf(calculate_fcurve_data(import_bone, WithRotation(key_data, rotation)))
                  = RotationOf(fcurve_data)
              => rotation = RotationOf(key_data)
        /\ \A location \in KeyLocationSet :
              LocationOf(calculate_fcurve_data(import_bone, WithLocation(key_data, location)))
                  = LocationOf(fcurve_data)
              => location = LocationOf(key_data)
        /\ InverseRotation(import_bone, RotationOf(fcurve_data)) = RotationOf(key_data)
        /\ InverseLocation(import_bone, LocationOf(fcurve_data)) = LocationOf(key_data)

\* C19: for a bone with or without parent and any bind pose, the keys that
\* are converted to the same key data have the same location and the same
\* rotation (the quaternion or its negation), and the inverse applied to
\* the converted key returns the location of the key and a quaternion of the
\* rotation of the key.
C19_InjectiveAsRotation ==
    Converted =>
        /\ \A rotation \in QuaternionSet :
              RotationOf(calculate_fcurve_data(import_bone, WithRotation(key_data, rotation)))
                  = RotationOf(fcurve_data)
              => SameRotation(rotation, RotationOf(key_data))
        /\ \A location \in KeyLocationSet :
              LocationOf(calculate_fcurve_data(import_bone, WithLocation(key_data, location)))
                  = LocationOf(fcurve_data)
              => location = LocationOf(key_data)
        /\ SameRotation(InverseRotation(import_bone, RotationOf(fcurve_data)),
                        RotationOf(key_data))
        /\ InverseLocation(import_bone, LocationOf(fcurve_data)) = LocationOf(key_data)

\* Witness of C19: a bone without parent and a key whose rotation has a
\* negative w; the inverse returns the location of the key and the negation
\* of its quaternion.
C19_Witness ==
    /\ Converted
    /\ ~import_bone.has_parent
    /\ import_bone.orig_quat = <<1, 1, 1, 1>>
    /\ import_bone.post_quat = <<0, 2, 0, 0>>
    /\ import_bone.orig_loc = <<MaxCoord, 0, 0>>
    /\ RotationOf(key_data) = <<-1, 1, 1, -1>>
    /\ LocationOf(key_data) = <<0, MaxCoord, 0>>
    /\ fcurve_data # key_data
    /\ InverseRotation(import_bone, RotationOf(fcurve_data)) = <<1, -1, -1, 1>>
    /\ InverseLocation(import_bone, LocationOf(fcurve_data)) = LocationOf(key_data)

\* The key is the bind pose of a bone with a parent whose post rotation is
\* the conjugate of its orig rotation.
KeyIsBindPoseOfChild ==
    /\ import_bone.has_parent
    /\ import_bone.post_quat = Conjugated(import_bone.orig_quat)
    /\ RotationOf(key_data) = import_bone.orig_quat
    /\ LocationOf(key_data) = import_bone.orig_loc

\* C20: the key of a bone with a parent that equals the bone's bind pose,
\* where post_rotation is the conjugate of orig_rotation, is converted to
\* the identity rotation and the zero translation.
C20_BindPoseMapsToRest ==
    (Converted /\ KeyIsBindPoseOfChild) =>
        /\ RotationOf(fcurve_data) = <<2, 0, 0, 0>>
        /\ LocationOf(fcurve_data) = <<0, 0, 0>>

\* Witness of C20: a bone without the custom properties, turned against its
\* parent and away from it, whose bind pose is converted to the rest pose.
C20_Witness ==
    /\ Converted
    /\ KeyIsBindPoseOfChild
    /\ ~armature_bone.has_orig_quat
    /\ armature_bone.rotation # armature_bone.parent_rotation
    /\ import_bone.orig_quat # IdentityQuaternion
    /\ import_bone.orig_quat # Conjugated(import_bone.orig_quat)
    /\ import_bone.orig_loc # ZeroVector
    /\ fcurve_data = <<2, 0, 0, 0, 0, 0, 0>>

-----------------------------------------------------------------------------
(* Properties of the conversion of a sequence data matrix. *)

\* The cells of the matrix, counted from 1.
MatrixFrames == 1..Len(psa_matrix)
MatrixBoneIndices == 1..Len(matrix_bones)

\* The value the conversion gives a cell: a function of the cell's key in
\* the file and of the bone's bind pose alone.
ConvertedCellValue(f, b) == calculate_fcurve_data(matrix_bones[b], psa_matrix[f][b])

\* C21: every cell is converted at most once; a cell that has been
\* converted holds the conversion of its own key by its own bone's bind
\* pose and every other cell holds its key of the file, whatever the other
\* cells hold; when the loops end, every cell of a mapped bone has been
\* converted exactly once and no cell of an unmapped bone has been.  The
\* same holds at every step of every other order and interleaving of the
\* turns, the key a turn has read is the cell's key of the file, and when
\* every cell has had its turn the matrix is the one the loops have left.
C21_CellsConvertedIndependently ==
    matrix_pc \in {"convert", "converted", "reordered"} =>
        /\ \A f \in MatrixFrames, b \in MatrixBoneIndices :
              /\ cell_calls[f][b] \in {0, 1}
              /\ sequence_data_matrix[f][b] =
                     IF cell_calls[f][b] = 1 THEN ConvertedCellValue(f, b)
                     ELSE psa_matrix[f][b]
              /\ matrix_bones[b].is_none => cell_calls[f][b] = 0
              /\ reordered_calls[f][b] \in {0, 1}
              /\ reordered_matrix[f][b] =
                     IF reordered_calls[f][b] = 1 THEN ConvertedCellValue(f, b)
                     ELSE psa_matrix[f][b]
              /\ matrix_bones[b].is_none => reordered_calls[f][b] = 0
              /\ keys_in_flight[f][b] \in {<<>>, psa_matrix[f][b]}
        /\ matrix_pc \in {"converted", "reordered"} =>
              \A f \in MatrixFrames, b \in MatrixBoneIndices :
                  cell_calls[f][b] = IF matrix_bones[b].is_none THEN 0 ELSE 1
        /\ matrix_pc = "reordered" =>
              /\ reordered_calls = cell_calls
              /\ reordered_matrix = sequence_data_matrix

\* Witness of C21: two frames of an unmapped bone and a mapped bone with
\* different keys; the cells of the mapped bone are converted to different
\* values and those of the unmapped bone are as in the file.  In the other
\* order the cell of the second frame has been stored first, while the turn
\* of the first frame has read its key and not stored yet.
C21_Witness ==
    /\ matrix_pc = "converted"
    /\ Len(psa_matrix) = 2
    /\ Len(matrix_bones) = 2
    /\ reordered_calls[2][2] = 1
    /\ reordered_calls[1][2] = 0
    /\ keys_in_flight[1][2] = psa_matrix[1][2]
    /\ reordered_matrix[2][2] = sequence_data_matrix[2][2]
    /\ reordered_matrix[1][2] = psa_matrix[1][2]
    /\ matrix_bones[1].is_none
    /\ ~matrix_bones[2].is_none
    /\ psa_matrix[1][2] # psa_matrix[2][2]
    /\ sequence_data_matrix[1][1] = psa_matrix[1][1]
    /\ sequence_data_matrix[2][1] = psa_matrix[2][1]
    /\ sequence_data_matrix[1][2] # psa_matrix[1][2]
    /\ sequence_data_matrix[2][2] # psa_matrix[2][2]
    /\ sequence_data_matrix[1][2] # sequence_data_matrix[2][2]

-----------------------------------------------------------------------------
(* Properties of the actions of the sequence loop. *)

\* import_psa has stopped: it has returned or an exception has left it.
SequencesStopped == seq_pc \in {"returned", "raised"}

\* The action as it was when import_psa was called; a new action starts
\* without f-curves and without the custom property.
ActionBefore(i) ==
    IF i <= Len(previous_actions) THEN previous_actions[i]
    ELSE [name |-> bpy_actions[i].name, fcurves |-> "none", psa_sequence_fps |-> "none"]

\* The action holds all that the import of a sequence writes to it under
\* the options.
FullyWritten(i) ==
    /\ bpy_actions[i].fcurves =
           IF import_options.should_write_keyframes THEN "written"
           ELSE ActionBefore(i).fcurves
    /\ bpy_actions[i].psa_sequence_fps =
           IF import_options.should_write_metadata THEN "imported"
           ELSE ActionBefore(i).psa_sequence_fps

\* The action is as it was when import_psa was called.
Untouched(i) == i <= Len(previous_actions) /\ bpy_actions[i] = previous_actions[i]

\* C22: after import_psa stops, every action is fully written or untouched,
\* and an action that did not exist before is fully written: no sequence
\* leaves a part of its output.
C22_SequenceAtomicity ==
    SequencesStopped =>
        \A i \in 1..Len(bpy_actions) : FullyWritten(i) \/ Untouched(i)

\* The name of the action of the i-th requested sequence.
ActionNameOf(i) == import_options.action_name_prefix \o requested_sequences[i]

\* The i-th sequence is imported with should_overwrite set while an action
\* of its name exists.
Overwrites(i) ==
    import_options.should_overwrite /\ ActionNameOf(i) \in ActionNames(previous_actions)

\* The sequences that were imported into a new action.
SequencesWithNewAction ==
    {i \in 1..Len(requested_sequences) : sequence_actions[i] > Len(previous_actions)}

\* What C23 says of a sequence whatever the other options are: whether a
\* new action is created, and that without should_overwrite the existing
\* action of that name is untouched.
OverwriteChoosesAction(i) ==
    /\ Overwrites(i) =>
          /\ sequence_actions[i] = ActionPosition(previous_actions, ActionNameOf(i))
          /\ bpy_actions[sequence_actions[i]].name = ActionNameOf(i)
    /\ ~Overwrites(i) =>
          /\ sequence_actions[i] > Len(previous_actions)
          /\ ActionNameOf(i) \in ActionNames(previous_actions) =>
                /\ Untouched(ActionPosition(previous_actions, ActionNameOf(i)))
                /\ bpy_actions[sequence_actions[i]].name = ActionNameOf(i) \o <<46, 48, 48, 49>>
          /\ ActionNameOf(i) \notin ActionNames(previous_actions) =>
                bpy_actions[sequence_actions[i]].name = ActionNameOf(i)

\* C23 as stated: an overwritten action never keeps its previous f-curves.
C23_OverwriteReplacesFCurves ==
    seq_pc = "returned" =>
        /\ Len(bpy_actions) = Len(previous_actions) + Cardinality(SequencesWithNewAction)
        /\ \A i \in 1..Len(requested_sequences) :
              /\ OverwriteChoosesAction(i)
              /\ Overwrites(i) => bpy_actions[sequence_actions[i]].fcurves = "written"

\* C23: with should_overwrite set and an action of the name prefix +
\* sequence name existing, no action is created and the existing action is
\* written to: with should_write_keyframes its f-curves are replaced by the
\* imported ones, without it they stay as they were; with
\* should_write_metadata its psa_sequence_fps is replaced.  Otherwise a new
\* action is created for the sequence and an existing action of that name is
\* untouched.
C23_OverwriteWritesExistingAction ==
    seq_pc = "returned" =>
        /\ Len(bpy_actions) = Len(previous_actions) + Cardinality(SequencesWithNewAction)
        /\ \A i \in 1..Len(requested_sequences) :
              /\ OverwriteChoosesAction(i)
              /\ FullyWritten(sequence_actions[i])
              /\ (Overwrites(i) /\ ~import_options.should_write_keyframes) =>
                    bpy_actions[sequence_actions[i]].fcurves = "previous"

\* Witness of C23: 'S1' exists and 'S1', 'S2' are imported with
\* should_overwrite and keyframes: 'S1' is overwritten in place and 'S2'
\* gets the one new action.
C23_Witness ==
    /\ seq_pc = "returned"
    /\ import_options.should_overwrite
    /\ import_options.should_write_keyframes
    /\ import_options.action_name_prefix = <<>>
    /\ Len(previous_actions) = 1
    /\ previous_actions[1].name = <<83, 49>>
    /\ Len(requested_sequences) = 2
    /\ sequence_actions = <<1, 2>>
    /\ Len(bpy_actions) = 2
    /\ bpy_actions[1] = [name |-> <<83, 49>>, fcurves |-> "written",
                         psa_sequence_fps |-> bpy_actions[1].psa_sequence_fps]
    /\ bpy_actions[2].name = <<83, 50>>

-----------------------------------------------------------------------------
(* Properties of the record layouts of wedges and faces. *)

\* The logical record that was written to the chunk.
WrittenRecord ==
    LogicalRecord(DecodeRecord(IF chunk_written_as = 32 THEN Layout32(chunk_kind)
                               ELSE Layout16(chunk_kind),
                               chunk_bytes))

\* C24: a wedge or face chunk is decoded with the 32-bit layout iff its
\* record size is the size of the 32-bit layout, with the 16-bit layout iff
\* it is the size of the 16-bit layout, and any other size is a format
\* error; the two layouts of a kind have different sizes, a chunk written in
\* the 16-bit layout is never decoded with the 32-bit one, and the decoded
\* logical record is the one that was written.
C24_LayoutSelectedBySize ==
    chunk_pc = "decoded" =>
        /\ chunk_decoded.layout = 32 <=> chunk_record_size = SizeOf(Layout32(chunk_kind))
        /\ chunk_decoded.layout = 16 <=> chunk_record_size = SizeOf(Layout16(chunk_kind))
        /\ chunk_decoded.error <=>
              /\ chunk_record_size # SizeOf(Layout32(chunk_kind))
              /\ chunk_record_size # SizeOf(Layout16(chunk_kind))
        /\ SizeOf(Layout16(chunk_kind)) # SizeOf(Layout32(chunk_kind))
        /\ chunk_written_as = 16 => chunk_decoded.layout # 32
        /\ chunk_written_as # 0 => chunk_decoded.record = WrittenRecord

-----------------------------------------------------------------------------
(* Properties of the PSK file. *)

\* The ids of the chunks of a written document, in the order of the format.
RequiredChunkOrder ==
    <<IdHeader, IdPoints, IdWedges, IdFaces, IdMaterials, IdBones, IdWeights>>
        \o (IF psk_document.extra_uvs = <<>> THEN <<>> ELSE <<IdExtraUvs>>)
        \o (IF psk_document.vertex_colors = <<>> THEN <<>> ELSE <<IdVertexColors>>)
        \o (IF psk_document.morph_infos = <<>> THEN <<>> ELSE <<IdMorphInfos, IdMorphData>>)

\* The part of the written document that is in the file: the document
\* without its vertex normals and its material references.
FileDocument ==
    [psk_document EXCEPT !.vertex_normals = <<>>, !.material_references = <<>>]

-----------------------------------------------------------------------------
(* Properties of the cursor of the material list. *)

\* material_list_index is a position of the material list.
CursorInList == material_list_index \in 0..(Len(material_list) - 1)

\* The last move had its source and its destination in the list.
MoveInList ==
    material_list_move.executed =>
        /\ material_list_move.from \in 0..(material_list_move.length - 1)
        /\ material_list_move.to \in 0..(material_list_move.length - 1)

\* C26: after any sequence of populate_material_list, move-up and move-down,
\* each move executed only when its poll is true, material_list_index is a
\* position of a non-empty material list, and no move was executed with a
\* source or destination outside the list.
C26_CursorStaysValid ==
    cursor_pc = "used" => (CursorInList /\ MoveInList)

-----------------------------------------------------------------------------
(* Properties of the build sequences of the PSA export. *)

\* The names of the selected items of the active source list, in list order.
SelectedItemNames ==
    LET selected == SelectSeq(ActiveSourceList, LAMBDA item : item.is_selected)
    IN [i \in 1..Len(selected) |-> selected[i].name]

\* The names of the build sequences handed to build_psa, in their order.
ExportSequenceNames ==
    [i \in 1..Len(export_sequences) |-> export_sequences[i].name]

\* C27: when PSA_OT_export.execute has made its build sequences, there is
\* exactly one for every selected item of the active source list, in list
\* order; in TIMELINE_MARKERS mode as in ACTIONS mode an item with
\* is_selected false has no build sequence.
C27_OneSequencePerSelectedItem ==
    (/\ operator = "PSA_OT_export"
     /\ sequence_source \in {"ACTIONS", "TIMELINE_MARKERS"}
     /\ op_pc \in {"build", "write"}) =>
        ExportSequenceNames = SelectedItemNames

-----------------------------------------------------------------------------
(* Properties of the direction of the pose-marker sequences. *)

\* C29: for every listed pose marker of the action, the last one in frame
\* order included, the first sequence of the marker (the one with its own
\* name, or the forward name of a split) has frame_start <= frame_end, and the
\* second sequence of a split has frame_start >= frame_end.
C29_PoseMarkerSequencesPlayForward ==
    ActionIsListed =>
        \A i \in ListedPoseMarkers :
            LET items == PoseMarkerItems(i)
            IN /\ items[1].frame_start <= items[1].frame_end
               /\ Len(items) > 1 => items[2].frame_start >= items[2].frame_end

-----------------------------------------------------------------------------
(* Properties of the two bone index maps of import_psa. *)

\* The mapping loop has run over every bone of the PSA file.
MappingLoopDone == pc \notin {"map_bones", "raised"}

\* The PSA bone p is recorded as mapped to the armature bone a.
PsaMapsTo(p, a) ==
    /\ p \in DOMAIN psa_to_armature_bone_indices
    /\ psa_to_armature_bone_indices[p] = a

\* The armature bone a is marked as claimed by the PSA bone p.
ArmatureClaimedBy(a, p) ==
    /\ a \in DOMAIN armature_to_psa_bone_indices
    /\ armature_to_psa_bone_indices[a] = p

\* C30: after the mapping loop, in both mapping modes, the PSA bone p is
\* recorded as mapped to the armature bone a if and only if the armature bone
\* a is marked as claimed by p, for every source index p and target index a.
C30_BoneIndexMapsAreInverses ==
    MappingLoopDone =>
        \A p \in 0..(Len(psa_bones) - 1), a \in 0..(Len(armature_bone_names) - 1) :
            PsaMapsTo(p, a) <=> ArmatureClaimedBy(a, p)

-----------------------------------------------------------------------------
(* Properties of load_psa_file. *)

\* The names of the sequences and of the bones of the file, decoded.
FileSequenceNames == [i \in 1..Len(psa_file.sequences) |-> Decode1252(psa_file.sequences[i])]
FileBoneNames == [i \in 1..Len(psa_file.bones) |-> Decode1252(psa_file.bones[i])]

\* The names the two collections hold.
ListedSequenceNames == [i \in 1..Len(pg_sequence_list) |-> pg_sequence_list[i].action_name]
ListedBoneNames == [i \in 1..Len(pg_psa_bones) |-> pg_psa_bones[i].bone_name]

\* C28: after a call of load_psa_file, either psa_error is empty and the
\* sequence list and the bone list hold every sequence and every bone of the
\* file, and nothing else, or psa_error is not empty and both lists are
\* empty.
C28_LoadIsAllOrNothing ==
    load_pc = "loaded" =>
        \/ /\ psa_error = ""
           /\ ListedSequenceNames = FileSequenceNames
           /\ ListedBoneNames = FileBoneNames
        \/ /\ psa_error # ""
           /\ pg_sequence_list = <<>>
           /\ pg_psa_bones = <<>>

====
